---------------------------- MODULE Spec2Model ----------------------------
(***************************************************************************)
(* Verification model of the document-structuring engine of                *)
(* shared_libs/utils/doc_chunker.py: the document segmenter                 *)
(* (identify_and_segment_document) and the section locator                  *)
(* (retrieve_section_text, retrieve_section_text_from_folder).              *)
(***************************************************************************)
EXTENDS Integers, Sequences, FiniteSets, TLC

(***************************************************************************)
(* Bounds                                                                  *)
(***************************************************************************)
\* longest input, in paragraphs (content.split("\n") never yields fewer than 1)
MaxParas == 4

\* most files in the JSON folder
MaxFiles == 2

\* most segments (documents) in one structured file
MaxDocs == 2

(***************************************************************************)
(* Paragraphs.  A paragraph is represented by the outcome of every test    *)
(* the segmenter applies to it; ParaKinds lists one representative text    *)
(* per combination of outcomes that a line of text can have.               *)
(*   blank          ""  or whitespace only                                  *)
(*   plain          "Noi dung A"                                            *)
(*   marker         "Phụ lục I"                                             *)
(*   preamble       "Ban hành kèm theo Thông tư ..." / "CỘNG HÒA XÃ HỘI.."  *)
(*   addressee      "Nơi nhận:" / "(Ký, ghi họ tên)"                        *)
(*   table          "<table>...</table>"                                    *)
(*   sigPlain       "Nơi nhận: ... Lưu: VT"                                 *)
(*   sigTable       "<table>Nơi nhận: ... Lưu: VT</table>"                  *)
(*   markerSigTable "Phụ lục I <table>Nơi nhận: ... Lưu: VT</table>"        *)
(*   markerPreamble "Phụ lục ban hành kèm theo Thông tư ..."                *)
(***************************************************************************)
ParaKinds ==
    {"blank", "plain", "marker", "preamble", "addressee", "table",
     "sigPlain", "sigTable", "markerSigTable", "markerPreamble"}

\* para.strip() == ""
IsBlank(p) == p = "blank"

\* "<table>" in para and "</table>" in para
HasTableTags(p) == p \in {"table", "sigTable", "markerSigTable"}

\* re.search(r"Nơi nhận:.*Lưu:", para, re.IGNORECASE)
MatchesSignature(p) == p \in {"sigPlain", "sigTable", "markerSigTable"}

\* re.match(r"Phụ lục\s+[IVXLCDM\-A-Za-z0-9\.]*", para, re.IGNORECASE)
MatchesAppendixMarker(p) ==
    p \in {"marker", "markerSigTable", "markerPreamble"}

\* "banhànhkèm" in normalized or "cộnghòaxãhội" in normalized
HasIssuedPhrase(p) == p \in {"preamble", "markerPreamble"}

\* "nơinhận:" in normalized or "ghihọtên" in normalized
\* (a paragraph matching the signature pattern contains "Nơi nhận:")
HasAddresseePhrase(p) ==
    p \in {"addressee", "sigPlain", "sigTable", "markerSigTable"}

\* every text the scanner can be given: 1..MaxParas paragraphs
Inputs == UNION {[1..n -> ParaKinds] : n \in 1..MaxParas}

(***************************************************************************)
(* State                                                                   *)
(***************************************************************************)
VARIABLES
    pc,                         \* position of identify_and_segment_document
    paragraphs,                 \* content.split("\n")
    idx,                        \* loop index (0-based, as in the source)
    segments,                   \* closed segments, in order
    current_segment,            \* [doc_number, content]
    current_segment_start_idx,  \* index of the last boundary
    inside_table,               \* flag of rule 1
    store,                      \* the files of the JSON folder, in walk order
    call,                       \* the last lookup call and its outcome
    sections,                   \* the forest given to clean_redundant_content
    before,                     \* the forest as it was before the last call
    passes,                     \* calls of clean_redundant_content so far
    conv,                       \* process_raw_file: position and locals
    out_file,                   \* the output JSON file of process_raw_file
    json_file,                  \* the JSON file given to reconstruct_text
    full_text,                  \* the text reconstruct_text returns
    det,                        \* detect_forms_in_appendix: position and locals
    batch,                      \* process_folder: position and locals
    queue,                      \* the messages in the SQS queue
    tasks,                      \* process_message: one task per polled message
    poller,                     \* poll_queue: position and polls made
    db,                         \* the records of the DynamoDB table
    api,                        \* submit_query_endpoint: calls and responses
    put                         \* a call of QueryModel.put_item: item, outcome

segVars == <<pc, paragraphs, idx, segments, current_segment,
             current_segment_start_idx, inside_table>>

lookupVars == <<store, call>>

cleanVars == <<sections, before, passes>>

rawVars == <<conv, out_file>>

renderVars == <<json_file, full_text>>

formVars == <<det>>

folderVars == <<batch>>

workerVars == <<queue, tasks, poller>>

dbVars == <<db>>

apiVars == <<api>>

putVars == <<put>>

vars == <<pc, paragraphs, idx, segments, current_segment,
          current_segment_start_idx, inside_table, store, call,
          sections, before, passes, conv, out_file, json_file, full_text,
          det, batch, queue, tasks, poller, db, api, put>>

\* the variables of the document tools and those of the query service
chunkerVars == <<segVars, lookupVars, cleanVars, rawVars, renderVars,
                 formVars, folderVars>>

serviceVars == <<workerVars, dbVars, apiVars, putVars>>

\* the variables outside each group
notSegVars == <<lookupVars, cleanVars, rawVars, renderVars,
                formVars, folderVars, serviceVars>>

notLookupVars == <<segVars, cleanVars, rawVars, renderVars,
                   formVars, folderVars, serviceVars>>

notCleanVars == <<segVars, lookupVars, rawVars, renderVars,
                  formVars, folderVars, serviceVars>>

notRawVars == <<segVars, lookupVars, cleanVars, renderVars,
                formVars, folderVars, serviceVars>>

notRenderVars == <<segVars, lookupVars, cleanVars, rawVars,
                   formVars, folderVars, serviceVars>>

notFormVars == <<segVars, lookupVars, cleanVars, rawVars, renderVars,
                 folderVars, serviceVars>>

notFolderVars == <<segVars, lookupVars, cleanVars, rawVars, renderVars,
                   formVars, serviceVars>>

\* process_raw_file has not been called; no output file exists
NoFile == [exists |-> FALSE]

LookupIdle == store = <<>> /\ call = [fn |-> "none"]

CleanIdle == sections = <<>> /\ before = <<>> /\ passes = 0

RawIdle == conv = [pc |-> "idle"] /\ out_file = NoFile

RenderIdle == json_file = <<>> /\ full_text = <<>>

FormIdle == det = [pc |-> "idle"]

FolderIdle == batch = [pc |-> "idle"]

\* the query service is not running: empty queue, empty table, no call
ServiceIdle ==
    /\ queue = {}
    /\ tasks = <<>>
    /\ poller = [pc |-> "idle"]
    /\ db = {}
    /\ api = [pc |-> "idle"]
    /\ put = [pc |-> "idle"]

\* no lookup call has been made
NoCall == [fn |-> "none"]

\* paragraphs[i] with the source's 0-based index
ParaAt(ps, i) == ps[i + 1]

(***************************************************************************)
(* Segment content.  A content string is a sequence of lines, each line    *)
(* one paragraph of the input followed by "\n".  lstripped / rstripped     *)
(* record whether leading / trailing whitespace of the paragraph was       *)
(* removed before it was written.                                          *)
(***************************************************************************)
\* para.strip() + "\n"
StrippedLine(i) == [para |-> i, lstripped |-> TRUE, rstripped |-> TRUE]

\* content.strip() is non-empty
NonEmptyContent(ps, content) ==
    \E k \in 1..Len(content) : ~IsBlank(ParaAt(ps, content[k].para))

\* "\n".join(paragraphs[start:i]).strip() + "\n", as lines; <<>> when the
\* joined text is empty after stripping.  strip() acts on the joined text:
\* blank paragraphs at either end vanish, the first remaining paragraph
\* loses its leading and the last its trailing whitespace.
NonBlankIn(ps, start, i) == {j \in start..(i - 1) : ~IsBlank(ParaAt(ps, j))}

Lowest(S) == CHOOSE x \in S : \A y \in S : x <= y

Highest(S) == CHOOSE x \in S : \A y \in S : x >= y

PrecedingParagraphs(ps, start, i) ==
    LET nb == NonBlankIn(ps, start, i) IN
    IF nb = {} THEN <<>>
    ELSE LET first == Lowest(nb)
             last  == Highest(nb)
         IN [k \in 1..(last - first + 1) |->
                [para      |-> first + k - 1,
                 lstripped |-> (k = 1),
                 rstripped |-> (first + k - 1 = last)]]

(***************************************************************************)
(* Rule 1: signature block                                                 *)
(***************************************************************************)
\* variant: the signature pattern is tried on every paragraph
SignatureCloses_AnyParagraph(inTable, p) == MatchesSignature(p)

\* inside_table or ("<table>" in para and "</table>" in para), then the
\* signature pattern
SignatureCloses(inTable, p) ==
    (inTable \/ HasTableTags(p)) /\ MatchesSignature(p)

(***************************************************************************)
(* Rule 2: appendix marker and its score                                   *)
(***************************************************************************)
BasePoints == 40
SupportPoints == 10
AppendixThreshold == 50
ContextWindow == 3

\* for offset in range(1, 4): if idx + offset < len(paragraphs) ...
NextSupport(ps, i) ==
    \E offset \in 1..ContextWindow :
        /\ i + offset < Len(ps)
        /\ HasIssuedPhrase(ParaAt(ps, i + offset))

\* for offset in range(1, 4): if idx - offset >= 0 ...
PrevSupport(ps, i) ==
    \E offset \in 1..ContextWindow :
        /\ i - offset >= 0
        /\ HasAddresseePhrase(ParaAt(ps, i - offset))

Points(ps, i) ==
    BasePoints
    + (IF NextSupport(ps, i) THEN SupportPoints ELSE 0)
    + (IF PrevSupport(ps, i) THEN SupportPoints ELSE 0)

\* variant: the threshold is exclusive (points > 50)
AcceptsAppendix_Strict(ps, i) ==
    /\ MatchesAppendixMarker(ParaAt(ps, i))
    /\ Points(ps, i) > AppendixThreshold

\* variant: the base score alone reaches the threshold
AcceptsAppendix_Lax(ps, i) ==
    /\ MatchesAppendixMarker(ParaAt(ps, i))
    /\ Points(ps, i) >= BasePoints

\* the marker paragraph at i is treated as a new appendix
AcceptsAppendix(ps, i) ==
    /\ MatchesAppendixMarker(ParaAt(ps, i))
    /\ Points(ps, i) >= AppendixThreshold

(***************************************************************************)
(* Segments                                                                *)
(***************************************************************************)
\* variant: the number is the count of closed segments, without the + 1
NewSegment_ZeroBased(segs) == [doc_number |-> Len(segs), content |-> <<>>]

\* {"doc_number": len(segments) + 1, "content": ""}
NewSegment(segs) == [doc_number |-> Len(segs) + 1, content |-> <<>>]

\* variant: the segment is appended without the emptiness test
CloseSegment_Always(ps, segs, seg) == Append(segs, seg)

\* if current_segment["content"].strip(): segments.append(current_segment)
CloseSegment(ps, segs, seg) ==
    IF NonEmptyContent(ps, seg.content) THEN Append(segs, seg) ELSE segs

(***************************************************************************)
(* One iteration of the scan loop, by branch.  Each yields the values of   *)
(* segments, current_segment and current_segment_start_idx after it.       *)
(***************************************************************************)
\* rule 1 fires: close the current segment, drop the paragraph (continue)
SignatureCloseStep(ps, i, segs, cur) ==
    LET closed == CloseSegment(ps, segs, cur) IN
    [segments |-> closed, current_segment |-> NewSegment(closed), start |-> i]

\* rule 2 fires with points >= 50: flush paragraphs[start:idx] into the
\* current segment, close it, open a segment holding the marker paragraph
AppendixAcceptStep(ps, i, segs, cur, start) ==
    LET flushed == [cur EXCEPT !.content =
                        @ \o PrecedingParagraphs(ps, start, i)]
        closed  == CloseSegment(ps, segs, flushed)
    IN [segments |-> closed,
        current_segment |->
            [NewSegment(closed) EXCEPT !.content = <<StrippedLine(i)>>],
        start |-> i]

\* neither rule closes: current_segment["content"] += para + "\n"
AppendStep(i, segs, cur, start) ==
    [segments |-> segs,
     current_segment |-> [cur EXCEPT !.content = Append(@, StrippedLine(i))],
     start |-> start]

(***************************************************************************)
(* identify_and_segment_document                                           *)
(***************************************************************************)
SegInit ==
    /\ FormIdle
    /\ FolderIdle
    /\ ServiceIdle
    /\ pc = "scan"
    /\ paragraphs \in Inputs
    /\ idx = 0
    /\ segments = <<>>
    /\ current_segment = [doc_number |-> 1, content |-> <<>>]
    /\ current_segment_start_idx = 0
    /\ inside_table = FALSE
    /\ LookupIdle
    /\ CleanIdle
    /\ RawIdle
    /\ RenderIdle

SignatureClose ==
    /\ pc = "scan"
    /\ idx < Len(paragraphs)
    /\ SignatureCloses(inside_table, ParaAt(paragraphs, idx))
    /\ LET r == SignatureCloseStep(paragraphs, idx, segments, current_segment)
       IN /\ segments' = r.segments
          /\ current_segment' = r.current_segment
          /\ current_segment_start_idx' = r.start
    /\ idx' = idx + 1
    /\ UNCHANGED <<pc, paragraphs, inside_table, notSegVars>>

AppendixAccept ==
    /\ pc = "scan"
    /\ idx < Len(paragraphs)
    /\ ~SignatureCloses(inside_table, ParaAt(paragraphs, idx))
    /\ AcceptsAppendix(paragraphs, idx)
    /\ LET r == AppendixAcceptStep(paragraphs, idx, segments, current_segment,
                                   current_segment_start_idx)
       IN /\ segments' = r.segments
          /\ current_segment' = r.current_segment
          /\ current_segment_start_idx' = r.start
    /\ idx' = idx + 1
    /\ UNCHANGED <<pc, paragraphs, inside_table, notSegVars>>

AppendParagraph ==
    /\ pc = "scan"
    /\ idx < Len(paragraphs)
    /\ ~SignatureCloses(inside_table, ParaAt(paragraphs, idx))
    /\ ~AcceptsAppendix(paragraphs, idx)
    /\ LET r == AppendStep(idx, segments, current_segment,
                           current_segment_start_idx)
       IN /\ segments' = r.segments
          /\ current_segment' = r.current_segment
          /\ current_segment_start_idx' = r.start
    /\ idx' = idx + 1
    /\ UNCHANGED <<pc, paragraphs, inside_table, notSegVars>>

\* after the loop: add the last segment if it contains content, return
ReturnSegments ==
    /\ pc = "scan"
    /\ idx = Len(paragraphs)
    /\ segments' = CloseSegment(paragraphs, segments, current_segment)
    /\ pc' = "done"
    /\ UNCHANGED <<paragraphs, idx, current_segment,
                   current_segment_start_idx, inside_table, notSegVars>>

SegNext ==
    \/ SignatureClose
    \/ AppendixAccept
    \/ AppendParagraph
    \/ ReturnSegments

SegSpec == SegInit /\ [][SegNext]_vars

\* the list identify_and_segment_document returns for the text ps, as a
\* function of the text: the loop from index i on, then the final close
RECURSIVE ScanFrom(_, _, _, _, _)
ScanFrom(ps, i, segs, cur, start) ==
    IF i >= Len(ps) THEN CloseSegment(ps, segs, cur)
    ELSE LET r == IF SignatureCloses(FALSE, ParaAt(ps, i))
                    THEN SignatureCloseStep(ps, i, segs, cur)
                  ELSE IF AcceptsAppendix(ps, i)
                    THEN AppendixAcceptStep(ps, i, segs, cur, start)
                  ELSE AppendStep(i, segs, cur, start)
         IN ScanFrom(ps, i + 1, r.segments, r.current_segment, r.start)

SegmentsOf(ps) ==
    ScanFrom(ps, 0, <<>>, [doc_number |-> 1, content |-> <<>>], 0)

(***************************************************************************)
(* Identifiers.  A string that is searched for "_" is a sequence of        *)
(* tokens; "_" is a token of its own and no other token contains it.       *)
(***************************************************************************)
Sep == "_"

\* s.endswith(suffix)
EndsWith(s, suffix) ==
    /\ Len(suffix) <= Len(s)
    /\ SubSeq(s, Len(s) - Len(suffix) + 1, Len(s)) = suffix

\* section_id.partition('_'): the text before the FIRST "_" and the text
\* after it; (section_id, "") when there is no "_"
Partition(id) ==
    LET seps == {k \in 1..Len(id) : id[k] = Sep} IN
    IF seps = {} THEN [head |-> id, tail |-> <<>>]
    ELSE LET k == Lowest(seps) IN
         [head |-> SubSeq(id, 1, k - 1), tail |-> SubSeq(id, k + 1, Len(id))]

Digits == <<"0", "1", "2", "3", "4", "5", "6", "7", "8", "9">>

\* f"{doc_number:02d}"
TwoDigits(n) ==
    IF n < 10 THEN <<"0", Digits[n + 1]>>
    ELSE <<Digits[(n \div 10) + 1], Digits[(n % 10) + 1]>>

\* variant: the appendix id without the segment number
AppendixId_Unnumbered(base, n) == base \o <<Sep, "appendix">>

\* f"{appendix_base_id}_appendix_{doc_number:02d}"
AppendixId(base, n) == base \o <<Sep, "appendix", Sep>> \o TwoDigits(n)

\* segment_id = main_doc_id if doc_number == 1 else appendix_id
SegmentId(main_id, n) == IF n = 1 THEN main_id ELSE AppendixId(main_id, n)

(***************************************************************************)
(* Section trees                                                           *)
(***************************************************************************)
\* a node of the tree; has_id is FALSE when the dict has no 'id' key.
\* header and title are strings; content is a text, a sequence whose
\* elements are its pieces in order, <<>> being the empty string
Node(has_id, id, header, title, content, subsections) ==
    [has_id |-> has_id, id |-> id, header |-> header, title |-> title,
     content |-> content, subsections |-> subsections]

\* id of a node built by parse_hierarchy: doc_id + "_" + marker token
NodeId(doc_id, marker) == doc_id \o <<Sep, marker>>

Markers == {"art001", "cl001", "art002", "art003"}

\* parse_hierarchy on a segment with markers: three articles, the first
\* with one clause
TaggedForest(doc_id) ==
    << Node(TRUE, NodeId(doc_id, "art001"), "Dieu 1.", "Pham vi", <<"Noi dung A">>,
            << Node(TRUE, NodeId(doc_id, "cl001"), "1.", "", <<"Khoan mot">>,
                    <<>>) >>),
       Node(TRUE, NodeId(doc_id, "art002"), "Dieu 2.", "", <<"Noi dung B">>, <<>>),
       Node(TRUE, NodeId(doc_id, "art003"), "Dieu 3.", "Hieu luc", <<>>, <<>>) >>

\* variant: the untagged node is emitted without the segment's text
UntaggedNode_NoContent(segment_text) == Node(FALSE, <<>>, "", "", <<>>, <<>>)

\* the single node process_raw_file emits when no marker is detected
UntaggedNode(segment_text) == Node(FALSE, <<>>, "", "", segment_text, <<>>)

UntaggedForest == << UntaggedNode(<<"segment text">>) >>

ForestShapes == {"tagged", "untagged"}

\* the same document converted from a revised source text: same markers,
\* other content
RevisedForest(doc_id) ==
    << Node(TRUE, NodeId(doc_id, "art001"), "Dieu 1.", "Pham vi",
            <<"Noi dung A sua doi">>,
            << Node(TRUE, NodeId(doc_id, "cl001"), "1.", "",
                    <<"Khoan mot sua doi">>, <<>>) >>),
       Node(TRUE, NodeId(doc_id, "art002"), "Dieu 2.", "",
            <<"Noi dung B sua doi">>, <<>>),
       Node(TRUE, NodeId(doc_id, "art003"), "Dieu 3.", "Hieu luc sua doi",
            <<>>, <<>>) >>

Forest(shape, doc_id) ==
    CASE shape = "tagged"  -> TaggedForest(doc_id)
      [] shape = "revised" -> RevisedForest(doc_id)
      [] OTHER             -> UntaggedForest

(***************************************************************************)
(* Structured files                                                        *)
(***************************************************************************)
MainIds == {<<"DOC1">>, <<"DOC2">>}

\* the documents process_raw_file writes for segments 1..Len(shapes)
Documents(main_id, shapes) ==
    [n \in 1..Len(shapes) |->
        [doc_number |-> n,
         doc_id     |-> SegmentId(main_id, n),
         articles   |-> Forest(shapes[n], SegmentId(main_id, n))]]

\* is_json: the file name ends with ".json"; loads: json.load succeeds
JsonFile(documents) ==
    [is_json |-> TRUE, loads |-> TRUE, documents |-> documents]

CorruptFile == [is_json |-> TRUE, loads |-> FALSE, documents |-> <<>>]

OtherFile(documents) ==
    [is_json |-> FALSE, loads |-> TRUE, documents |-> documents]

\* a path at which no file exists
MissingPath == 0

ShapeSeqs == UNION {[1..n -> ForestShapes] : n \in 0..MaxDocs}

FileChoices ==
    {JsonFile(Documents(m, sh)) : m \in MainIds, sh \in ShapeSeqs}
    \cup {CorruptFile}
    \cup {OtherFile(Documents(<<"DOC1">>, <<"tagged">>))}
    \cup {JsonFile(Documents(<<"DOC1">>, <<"revised">>))}

\* the section ids looked up: every id a node can have, and one without "_"
QueryIds ==
    {NodeId(SegmentId(m, n), t) : m \in MainIds, n \in 1..MaxDocs, t \in Markers}
    \cup {<<"nosuch">>}

(***************************************************************************)
(* Rendering (process_section).  A text is a sequence of lines; a line is  *)
(* its indentation level and the strings joined by ", " that follow it.    *)
(***************************************************************************)
\* variant: every line is written without indentation
Line_NoIndent(indent_level, parts) == [indent |-> 0, text |-> parts]

Line(indent_level, parts) == [indent |-> indent_level, text |-> parts]

\* the line that holds a node's content: f"{indent}{content}\n"
ContentLine(indent_level, content) ==
    [indent |-> indent_level, text |-> <<content>>, body |-> TRUE]

\* filter(None, reversed(current_headers))
RECURSIVE ReversedNonEmpty(_)
ReversedNonEmpty(hs) ==
    IF hs = <<>> THEN <<>>
    ELSE (IF hs[Len(hs)] # "" THEN <<hs[Len(hs)]>> ELSE <<>>)
         \o ReversedNonEmpty(SubSeq(hs, 1, Len(hs) - 1))

RECURSIVE process_section(_, _, _, _)
RECURSIVE ProcessSubsections(_, _, _, _, _)
process_section(section, indent_level, include_full_hierarchy, parent_headers) ==
    LET header == section.header
        current_headers ==
            IF header # "" THEN Append(parent_headers, header)
            ELSE parent_headers
        full_reference == ReversedNonEmpty(current_headers)
        head_line ==
            IF include_full_hierarchy
            THEN (IF full_reference # <<>>
                  THEN <<Line(indent_level, full_reference)>> ELSE <<>>)
            ELSE (IF header # ""
                  THEN <<Line(indent_level, <<header>>)>> ELSE <<>>)
        title_line ==
            IF section.title # ""
            THEN <<Line(indent_level, <<section.title>>)>> ELSE <<>>
        content_line ==
            IF section.content # <<>>
            THEN <<ContentLine(indent_level, section.content)>> ELSE <<>>
    IN head_line \o title_line \o content_line
       \o ProcessSubsections(section.subsections, 1, indent_level + 1,
                             include_full_hierarchy,
                             Append(parent_headers, header))

\* for subsection in section.get("subsections", []): text += ...
ProcessSubsections(subs, k, indent_level, include_full_hierarchy, parent_headers) ==
    IF k > Len(subs) THEN <<>>
    ELSE process_section(subs[k], indent_level, include_full_hierarchy,
                         parent_headers)
         \o ProcessSubsections(subs, k + 1, indent_level,
                               include_full_hierarchy, parent_headers)

(***************************************************************************)
(* Tree search.  A search returns <<>> for None and <<node>> for a hit.    *)
(***************************************************************************)
RECURSIVE find_section_by_id(_, _)
RECURSIVE FindByIdIn(_, _, _)
find_section_by_id(section, section_id) ==
    IF section.has_id /\ section.id = section_id THEN <<section>>
    ELSE FindByIdIn(section.subsections, 1, section_id)

\* first hit among nodes[k..], in order (subsections of a node, or articles)
FindByIdIn(nodes, k, section_id) ==
    IF k > Len(nodes) THEN <<>>
    ELSE LET result == find_section_by_id(nodes[k], section_id) IN
         IF result # <<>> THEN result
         ELSE FindByIdIn(nodes, k + 1, section_id)

RECURSIVE find_section_by_partial_id(_, _)
RECURSIVE FindByPartialIdIn(_, _, _)
find_section_by_partial_id(section, unique_marker) ==
    IF section.has_id /\ EndsWith(section.id, <<Sep>> \o unique_marker)
    THEN <<section>>
    ELSE FindByPartialIdIn(section.subsections, 1, unique_marker)

FindByPartialIdIn(nodes, k, unique_marker) ==
    IF k > Len(nodes) THEN <<>>
    ELSE LET result == find_section_by_partial_id(nodes[k], unique_marker) IN
         IF result # <<>> THEN result
         ELSE FindByPartialIdIn(nodes, k + 1, unique_marker)

(***************************************************************************)
(* retrieve_section_text                                                   *)
(***************************************************************************)
Returns(text) == [status |-> "returned", value |-> text]

Raises == [status |-> "raised", value |-> <<>>]

\* the document is searched only when its doc_id equals the text before
\* the first "_" of section_id
DocumentSelected(document, section_id) ==
    document.doc_id = Partition(section_id).head

\* the loop over documents from documents[k] on; <<>> is the empty string
RECURSIVE SearchDocuments(_, _, _)
SearchDocuments(documents, k, section_id) ==
    IF k > Len(documents) THEN <<>>
    ELSE IF ~DocumentSelected(documents[k], section_id)
         THEN SearchDocuments(documents, k + 1, section_id)
    ELSE LET articles == documents[k].articles
             exact    == FindByIdIn(articles, 1, section_id)
             partial  == FindByPartialIdIn(articles, 1,
                                           Partition(section_id).tail)
         IN IF exact # <<>>
              THEN process_section(exact[1], 0, FALSE, <<>>)
            ELSE IF partial # <<>>
              THEN process_section(partial[1], 0, FALSE, <<>>)
            ELSE SearchDocuments(documents, k + 1, section_id)

\* variant: no os.path.exists test, open() raises on a missing file
retrieve_section_text_NoExistsTest(section_id, files, path) ==
    IF path = MissingPath THEN Raises
    ELSE IF ~files[path].loads THEN Raises
    ELSE IF files[path].documents = <<>> THEN Returns(<<>>)
    ELSE Returns(SearchDocuments(files[path].documents, 1, section_id))

\* path is an index of store, or MissingPath
retrieve_section_text(section_id, files, path) ==
    IF path = MissingPath THEN Returns(<<>>)
    ELSE IF ~files[path].loads THEN Raises
    ELSE IF files[path].documents = <<>> THEN Returns(<<>>)
    ELSE Returns(SearchDocuments(files[path].documents, 1, section_id))

(***************************************************************************)
(* retrieve_section_text_from_folder                                       *)
(***************************************************************************)
FolderPaths == {"json_folder", "no_such_folder"}

FolderNotFound == <<Line(0, <<"Folder not found">>)>>

SectionNotFound == <<Line(0, <<"Section id not found in any JSON file">>)>>

\* the walk from files[k] on
RECURSIVE WalkFiles(_, _, _)
WalkFiles(section_id, files, k) ==
    IF k > Len(files) THEN Returns(SectionNotFound)
    ELSE IF ~files[k].is_json THEN WalkFiles(section_id, files, k + 1)
    ELSE LET r == retrieve_section_text(section_id, files, k) IN
         IF r.status = "raised" THEN Raises
         ELSE IF r.value # <<>> THEN r
         ELSE WalkFiles(section_id, files, k + 1)

retrieve_section_text_from_folder(section_id, files, folder_path) ==
    IF folder_path # "json_folder" THEN Returns(FolderNotFound)
    ELSE WalkFiles(section_id, files, 1)

(***************************************************************************)
(* The JSON folder and the lookup calls                                    *)
(***************************************************************************)
SegIdle ==
    /\ pc = "idle"
    /\ paragraphs = <<"blank">>
    /\ idx = 0
    /\ segments = <<>>
    /\ current_segment = [doc_number |-> 1, content |-> <<>>]
    /\ current_segment_start_idx = 0
    /\ inside_table = FALSE

LookupInit ==
    /\ FormIdle
    /\ FolderIdle
    /\ ServiceIdle
    /\ SegIdle
    /\ store = <<>>
    /\ call = NoCall
    /\ CleanIdle
    /\ RawIdle
    /\ RenderIdle

\* a file appears in the folder (written by process_raw_file, or not)
PutFile ==
    /\ call = NoCall
    /\ Len(store) < MaxFiles
    /\ \E f \in FileChoices : store' = Append(store, f)
    /\ call' = NoCall
    /\ UNCHANGED notLookupVars

RetrieveSectionText ==
    /\ call = NoCall
    /\ \E section_id \in QueryIds, path \in {MissingPath} \cup (1..Len(store)) :
          LET r == retrieve_section_text(section_id, store, path) IN
          call' = [fn |-> "retrieve_section_text", section_id |-> section_id,
                   path |-> path, status |-> r.status, value |-> r.value]
    /\ UNCHANGED <<store, notLookupVars>>

RetrieveSectionTextFromFolder ==
    /\ call = NoCall
    /\ \E section_id \in QueryIds, folder_path \in FolderPaths :
          LET r == retrieve_section_text_from_folder(section_id, store,
                                                     folder_path) IN
          call' = [fn |-> "retrieve_section_text_from_folder",
                   section_id |-> section_id, path |-> folder_path,
                   status |-> r.status, value |-> r.value]
    /\ UNCHANGED <<store, notLookupVars>>

\* the caller has taken the result; the next operation can start
CallReturns ==
    /\ call # NoCall
    /\ call' = NoCall
    /\ UNCHANGED <<store, notLookupVars>>

LookupNext ==
    \/ PutFile
    \/ RetrieveSectionText
    \/ RetrieveSectionTextFromFolder
    \/ CallReturns

LookupSpec == LookupInit /\ [][LookupNext]_vars

(***************************************************************************)
(* Strings that are searched for substrings are sequences of characters.   *)
(***************************************************************************)
Chars == {"a", "b", " "}

\* longest content of a parent section, longest content of a subsection
MaxContentLen == 3

MaxChildLen == 2

StringsUpTo(n) == UNION {[1..k -> Chars] : k \in 0..n}

\* s.strip()
Strip(s) ==
    LET solid == {i \in 1..Len(s) : s[i] # " "} IN
    IF solid = {} THEN <<>> ELSE SubSeq(s, Lowest(solid), Highest(solid))

\* s.replace(old, ""): the occurrences of old found by a scan from the
\* left, none overlapping another, are removed; old = "" removes nothing
RECURSIVE ReplaceFrom(_, _, _)
ReplaceFrom(s, i, old) ==
    IF i > Len(s) THEN <<>>
    ELSE IF i + Len(old) - 1 <= Len(s) /\ SubSeq(s, i, i + Len(old) - 1) = old
         THEN ReplaceFrom(s, i + Len(old), old)
    ELSE <<s[i]>> \o ReplaceFrom(s, i + 1, old)

Replace(s, old) == IF old = <<>> THEN s ELSE ReplaceFrom(s, 1, old)

(***************************************************************************)
(* clean_redundant_content                                                 *)
(***************************************************************************)
\* the stripped content and title of every subsection, in list order
RECURSIVE LowerLevelContents(_, _)
LowerLevelContents(subs, k) ==
    IF k > Len(subs) THEN <<>>
    ELSE (IF subs[k].content # <<>> THEN <<Strip(subs[k].content)>> ELSE <<>>)
         \o (IF subs[k].title # <<>> THEN <<Strip(subs[k].title)>> ELSE <<>>)
         \o LowerLevelContents(subs, k + 1)

\* for lower_content in lower_level_contents:
\*     current_content = current_content.replace(lower_content.strip(), "").strip()
RECURSIVE Deduplicate(_, _, _)
Deduplicate(current_content, lowers, k) ==
    IF k > Len(lowers) THEN current_content
    ELSE Deduplicate(Strip(Replace(current_content, Strip(lowers[k]))),
                     lowers, k + 1)

RECURSIVE clean_redundant_content(_)
\* variant: the content of a section without subsections is stripped
CleanSection_StripsLeaves(section) ==
    IF section.subsections = <<>> THEN [section EXCEPT !.content = Strip(@)]
    ELSE LET subs == clean_redundant_content(section.subsections) IN
         [section EXCEPT
            !.subsections = subs,
            !.content = IF @ = <<>> THEN @
                        ELSE Deduplicate(@, LowerLevelContents(subs, 1), 1)]

CleanSection(section) ==
    IF section.subsections = <<>> THEN section
    ELSE LET subs == clean_redundant_content(section.subsections) IN
         [section EXCEPT
            !.subsections = subs,
            !.content = IF @ = <<>> THEN @
                        ELSE Deduplicate(@, LowerLevelContents(subs, 1), 1)]

clean_redundant_content(forest) ==
    [k \in 1..Len(forest) |-> CleanSection(forest[k])]

\* a section of the forests given to the cleaner
Section(header, title, content, subsections) ==
    Node(FALSE, <<>>, header, title, content, subsections)

\* the subsection lists: one or two subsections, the first with or without
\* a title and with or without a subsection of its own
ChildTitles == {<<>>, <<"b">>}

GrandChildren == {<<>>, <<Section("a)", <<>>, <<"a">>, <<>>)>>}

ChildLists ==
    {<<Section("1.", t, c, g)>> :
        t \in ChildTitles, c \in StringsUpTo(MaxChildLen), g \in GrandChildren}
    \cup
    {<<Section("1.", t, c, <<>>), Section("2.", <<>>, d, <<>>)>> :
        t \in ChildTitles, c \in StringsUpTo(MaxChildLen),
        d \in StringsUpTo(MaxChildLen)}

Forests ==
    {<<Section("Dieu 1.", <<>>, c, subs)>> :
        c \in StringsUpTo(MaxContentLen), subs \in ChildLists}

\* clean_redundant_content is applied at most this many times in a row
MaxPasses == 2

CleanInit ==
    /\ FormIdle
    /\ FolderIdle
    /\ ServiceIdle
    /\ SegIdle
    /\ LookupIdle
    /\ RawIdle
    /\ RenderIdle
    /\ sections \in Forests
    /\ before = sections
    /\ passes = 0

CleanRedundantContent ==
    /\ passes < MaxPasses
    /\ before' = sections
    /\ sections' = clean_redundant_content(sections)
    /\ passes' = passes + 1
    /\ UNCHANGED notCleanVars

CleanNext == CleanRedundantContent

CleanSpec == CleanInit /\ [][CleanNext]_vars

(***************************************************************************)
(* process_raw_file.  The text is the sanitized text (line 188), given as  *)
(* its paragraphs; <<>> is the empty text.  Two more kinds of paragraph    *)
(* matter here, neither of which passes a test of the segmenter:           *)
(*   article   "Điều 3."              a hierarchy marker                   *)
(*   number    "Số: DOC1"             the line that holds the document id  *)
(***************************************************************************)
RawKinds ==
    {"blank", "plain", "article", "number", "marker", "addressee", "sigTable"}

RawInputs == UNION {[1..n -> RawKinds] : n \in 0..MaxParas}

\* for element in elements[:30]
DocIdLines == 30

\* the id written in a "number" paragraph
DocNumber == <<"DOC1">>

\* extract_doc_id: the id of the first of the first 30 lines that matches
\* "Số ...", "" when none does
extract_doc_id(ps, segment_text) ==
    LET hits == {k \in 1..Len(segment_text) :
                    /\ k <= DocIdLines
                    /\ ParaAt(ps, segment_text[k].para) = "number"}
    IN IF hits = {} THEN <<>> ELSE DocNumber

\* detect_hierarchy: the marker patterns that occur in the segment
detect_hierarchy(ps, segment_text) ==
    IF \E k \in 1..Len(segment_text) :
            ParaAt(ps, segment_text[k].para) = "article"
    THEN <<"article">> ELSE <<>>

\* the marker token of the k-th article of a segment, and the text of the
\* marker paragraph at index i of the input
ArticleTokens ==
    <<"art001", "art002", "art003", "art004", "art005",
      "art006", "art007", "art008", "art009", "art010">>

ArticleHeaders ==
    <<"Dieu 1.", "Dieu 2.", "Dieu 3.", "Dieu 4.", "Dieu 5.",
      "Dieu 6.", "Dieu 7.", "Dieu 8.", "Dieu 9.", "Dieu 10.">>

HeaderOf(i) == ArticleHeaders[i + 1]

\* parse_hierarchy with one marker pattern: every marker paragraph opens a
\* node, the paragraphs after it are the content of that node; a paragraph
\* before the first marker belongs to no node
RECURSIVE ParseFrom(_, _, _, _, _)
ParseFrom(ps, segment_text, k, doc_id, nodes) ==
    IF k > Len(segment_text) THEN nodes
    ELSE LET line == segment_text[k] IN
         IF ParaAt(ps, line.para) = "article"
         THEN ParseFrom(ps, segment_text, k + 1, doc_id,
                  Append(nodes,
                         Node(TRUE, NodeId(doc_id, ArticleTokens[Len(nodes) + 1]),
                              HeaderOf(line.para), "", <<>>, <<>>)))
         ELSE IF nodes = <<>>
         THEN ParseFrom(ps, segment_text, k + 1, doc_id, nodes)
         ELSE ParseFrom(ps, segment_text, k + 1, doc_id,
                  [nodes EXCEPT ![Len(nodes)].content = Append(@, line)])

parse_hierarchy(ps, segment_text, doc_id) ==
    ParseFrom(ps, segment_text, 1, doc_id, <<>>)

\* main_doc_id = None
None == <<"None">>

\* a local variable before and after its first assignment
Unbound == [bound |-> FALSE]

Bound(value) == [bound |-> TRUE, value |-> value]

\* one iteration of "for segment in segments" (lines 196-235): the values
\* of main_doc_id and appendix_base_id after it and the document appended
StructureSegment(ps, segment, main_doc_id, appendix_base_id) ==
    LET doc_number == segment.doc_number
        segment_text == segment.content
        main == IF doc_number = 1 THEN extract_doc_id(ps, segment_text)
                ELSE main_doc_id
        base == IF doc_number = 1 THEN Bound(main) ELSE appendix_base_id
        segment_id == IF doc_number = 1 THEN main
                      ELSE AppendixId(base.value, doc_number)
        structured_sections ==
            IF detect_hierarchy(ps, segment_text) = <<>>
            THEN <<UntaggedNode(segment_text)>>
            ELSE parse_hierarchy(ps, segment_text, segment_id)
    IN [main_doc_id |-> main,
        appendix_base_id |-> base,
        document |-> [doc_number |-> doc_number,
                      doc_id     |-> segment_id,
                      articles   |-> structured_sections]]

(***************************************************************************)
(* reconstruct_text                                                        *)
(***************************************************************************)
\* "-" * 80
Dashes == "--------------------------------------------------------------------------------"

\* full_text += "\n" + "-" * 80 + "\n\n"
Separator == <<Line(0, <<>>), Line(0, <<Dashes>>), Line(0, <<>>)>>

\* for article in articles: full_text += process_section(article, ...)
RECURSIVE RenderArticles(_, _)
RenderArticles(articles, k) ==
    IF k > Len(articles) THEN <<>>
    ELSE process_section(articles[k], 0, TRUE, <<>>)
         \o RenderArticles(articles, k + 1)

RECURSIVE RenderDocuments(_, _)
RenderDocuments(documents, k) ==
    IF k > Len(documents) THEN <<>>
    ELSE RenderArticles(documents[k].articles, 1) \o Separator
         \o RenderDocuments(documents, k + 1)

\* "" when the file does not exist or holds no document
reconstruct_text(file) ==
    IF ~file.exists THEN <<>> ELSE RenderDocuments(file.documents, 1)

(***************************************************************************)
(* Conversion of one raw file, then reconstruction from what was written   *)
(***************************************************************************)
\* the file types extract_text has an extractor for
SupportedTypes == {"txt", "docx", "pdf", "html"}

\* variant: the extractor is applied whatever the file type
extract_text_AnyType(file_type, text) == text

\* extract_text: what the extractor of the file's type yields from the
\* file (text is that yield, <<>> when the extraction fails), "" for a
\* file of another type
extract_text(file_type, text) ==
    IF file_type \in SupportedTypes THEN text ELSE <<>>

\* the raw files converted: a txt file for every text, and one file of
\* every other type
RawFiles ==
    {[file_type |-> "txt", text |-> ps] : ps \in RawInputs}
    \cup {[file_type |-> t, text |-> <<"number", "plain">>] :
             t \in {"docx", "pdf", "html", "zip"}}

\* an output file left at the output path by an earlier run
OldFile ==
    [exists |-> TRUE,
     documents |-> <<[doc_number |-> 1, doc_id |-> <<"OLD">>,
                      articles |-> <<>>]>>]

RawInit ==
    /\ FormIdle
    /\ FolderIdle
    /\ ServiceIdle
    /\ SegIdle
    /\ LookupIdle
    /\ CleanIdle
    /\ RenderIdle
    /\ \E file \in RawFiles :
          conv = [pc |-> "start", file_type |-> file.file_type,
                  text |-> file.text]
    /\ out_file \in {NoFile, OldFile}

\* lines 182-193: return when no text was extracted, else segment it
SegmentText ==
    /\ conv.pc = "start"
    /\ LET raw_text == extract_text(conv.file_type, conv.text) IN
       conv' = IF raw_text = <<>>
               THEN [pc |-> "done", text |-> raw_text]
               ELSE [pc |-> "loop", text |-> raw_text,
                     segments |-> SegmentsOf(raw_text), n |-> 1,
                     main_doc_id |-> None, appendix_base_id |-> Unbound,
                     documents |-> <<>>]
    /\ UNCHANGED <<out_file, notRawVars>>

\* lines 195-235, one segment; the read of an unassigned appendix_base_id
\* raises, the except clause logs it and nothing is written
ProcessSegment ==
    /\ conv.pc = "loop"
    /\ conv.n <= Len(conv.segments)
    /\ LET segment == conv.segments[conv.n] IN
       IF segment.doc_number # 1 /\ ~conv.appendix_base_id.bound
       THEN conv' = [pc |-> "failed", text |-> conv.text]
       ELSE LET r == StructureSegment(conv.text, segment, conv.main_doc_id,
                                      conv.appendix_base_id)
            IN conv' = [conv EXCEPT !.n = @ + 1,
                                    !.main_doc_id = r.main_doc_id,
                                    !.appendix_base_id = r.appendix_base_id,
                                    !.documents = Append(@, r.document)]
    /\ UNCHANGED <<out_file, notRawVars>>

\* lines 238-242
WriteFile ==
    /\ conv.pc = "loop"
    /\ conv.n > Len(conv.segments)
    /\ out_file' = [exists |-> TRUE, documents |-> conv.documents]
    /\ conv' = [pc |-> "done", text |-> conv.text]
    /\ UNCHANGED notRawVars

\* reconstruct_text(output_json_path) after process_raw_file has returned
ReconstructOutput ==
    /\ conv.pc \in {"done", "failed"}
    /\ full_text' = reconstruct_text(out_file)
    /\ conv' = [pc |-> "reconstructed", text |-> conv.text]
    /\ UNCHANGED <<out_file, json_file, segVars, lookupVars, cleanVars,
                   formVars, folderVars, serviceVars>>

RawNext ==
    \/ SegmentText
    \/ ProcessSegment
    \/ WriteFile
    \/ ReconstructOutput

RawSpec == RawInit /\ [][RawNext]_vars

(***************************************************************************)
(* reconstruct_text on structured files with nested sections               *)
(***************************************************************************)
\* levels of nesting in the files that are reconstructed
MaxDepth == 3

\* the marker text of the first and of the second section of a level
LevelHeaders == <<"Chuong I", "Dieu 1.", "1.", "a)", "-">>

SiblingHeaders == <<"Chuong II", "Dieu 2.", "2.", "b)", "+">>

Contents == {<<>>, <<"Noi dung">>}

\* the sections a level can hold: a section has no header or the header
\* of its level, and below it nothing, one section, or one section
\* followed by a second that has no subsections
Leaves(headers, level) ==
    {Section(h, "", c, <<>>) : h \in {"", headers[level]}, c \in Contents}

RECURSIVE Trees(_)
Trees(level) ==
    IF level >= MaxDepth THEN Leaves(LevelHeaders, level)
    ELSE LET below == Trees(level + 1)
             lists == {<<>>} \cup {<<t>> : t \in below}
                      \cup {<<t, s>> : t \in below,
                                       s \in Leaves(SiblingHeaders, level + 1)}
         IN {Section(h, "", c, subs) :
                h \in {"", LevelHeaders[level]}, c \in Contents,
                subs \in lists}

\* the lines of table markup, and a content that holds a table of one row
\* with two cells between two lines of prose
TagLines == {"<table>", "</table>", "<tr>", "</tr>"}

CellLines == {"<td>A</td>", "<td>B</td>"}

\* line[4:-5].strip()
CellText(line) == IF line = "<td>A</td>" THEN "A" ELSE "B"

TableContent ==
    <<"Bang ke", "<table>", "<tr>", "<td>A</td>", "<td>B</td>", "</tr>",
      "</table>", "Ghi chu">>

\* reconstruct_table: the text written for the lines from the k-th on,
\* row_cells holding the cells of the row being read.  No function of the
\* module calls it.
RowLine(indent_level, row_cells) ==
    [indent |-> indent_level, cells |-> row_cells]

RECURSIVE ReconstructTableFrom(_, _, _, _)
ReconstructTableFrom(content, k, indent_level, row_cells) ==
    IF k > Len(content) THEN <<>>
    ELSE LET line == content[k] IN
         IF line = "<table>"
         THEN ReconstructTableFrom(content, k + 1, indent_level, row_cells)
         ELSE IF line = "</table>"
         THEN <<Line(0, <<>>)>>
              \o ReconstructTableFrom(content, k + 1, indent_level, row_cells)
         ELSE IF line = "<tr>"
         THEN ReconstructTableFrom(content, k + 1, indent_level, <<>>)
         ELSE IF line = "</tr>"
         THEN <<RowLine(indent_level, row_cells)>>
              \o ReconstructTableFrom(content, k + 1, indent_level, <<>>)
         ELSE IF line \in CellLines
         THEN ReconstructTableFrom(content, k + 1, indent_level,
                                   Append(row_cells, CellText(line)))
         ELSE <<Line(indent_level, <<line>>)>>
              \o ReconstructTableFrom(content, k + 1, indent_level, row_cells)

reconstruct_table(content, indent_level) ==
    ReconstructTableFrom(content, 1, indent_level, <<>>)

\* files in which a table is held by a top-level section or by its
\* subsection
TableTrees ==
    {Section("Dieu 1.", "", TableContent, <<>>),
     Section("Dieu 1.", "", <<"Noi dung">>,
             <<Section("1.", "", TableContent, <<>>)>>)}

NestedFiles ==
    {[exists |-> TRUE,
      documents |-> <<[doc_number |-> 1, doc_id |-> <<"DOC1">>,
                       articles |-> <<t>>]>>] :
        t \in Trees(1) \cup TableTrees}

RenderInit ==
    /\ FormIdle
    /\ FolderIdle
    /\ ServiceIdle
    /\ SegIdle
    /\ LookupIdle
    /\ CleanIdle
    /\ RawIdle
    /\ json_file \in NestedFiles
    /\ full_text = <<>>

ReconstructText ==
    /\ full_text = <<>>
    /\ full_text' = reconstruct_text(json_file)
    /\ UNCHANGED <<json_file, notRenderVars>>

RenderNext == ReconstructText

RenderSpec == RenderInit /\ [][RenderNext]_vars

(***************************************************************************)
(* detect_forms_in_appendix.  A paragraph of the appendix is one of the    *)
(* kinds below, classified by the tests the detector applies to it:        *)
(*   plain          "Kính gửi: ..."                                        *)
(*   form           "Mẫu số 01"                                            *)
(*   issued         "(Ban hành kèm theo Thông tư ...)"                     *)
(*   table          "<table>"                                              *)
(*   upper          "TỜ KHAI"                                              *)
(*   preamble       "Cộng hòa xã hội chủ nghĩa Việt Nam"                   *)
(*   upperPreamble  "CỘNG HÒA XÃ HỘI CHỦ NGHĨA VIỆT NAM"                   *)
(*   issuedTable    "</table> Ban hành kèm theo ..."                       *)
(*   tablePreamble  "<table> Cộng hòa xã hội ..."                          *)
(* A paragraph that contains "<table>" or "</table>" has lower-case        *)
(* letters, so str.isupper() is False for it: no kind is both.             *)
(***************************************************************************)
FormKinds ==
    {"plain", "form", "issued", "table", "upper", "preamble",
     "upperPreamble", "issuedTable", "tablePreamble"}

\* longest appendix text given to the detector, in paragraphs
MaxFormParas == 4

FormInputs == UNION {[1..n -> FormKinds] : n \in 1..MaxFormParas}

\* "mẫusố" in para.lower().replace(" ", "")
HasFormNumber(p) == p = "form"

\* "banhànhkèm" in the normalized paragraph
HasIssuedWith(p) == p \in {"issued", "issuedTable"}

\* para.isupper()
IsUpper(p) == p \in {"upper", "upperPreamble"}

\* "<table>" in para or "</table>" in para
ContainsTableTag(p) == p \in {"table", "issuedTable", "tablePreamble"}

\* "cộnghòaxãhội" in the normalized paragraph
HasRepublicPhrase(p) == p \in {"preamble", "upperPreamble", "tablePreamble"}

FormMarkerPoints == 40

FormContextPoints == 10

FormThreshold == 50

\* n points when the test holds, none otherwise
PointsIf(test, n) == IF test THEN n ELSE 0

\* variant: rule 6 (the republic's preamble after the paragraph) is left out
FormPoints_NoPreamble(ps, i) ==
    PointsIf(HasFormNumber(ParaAt(ps, i)), FormMarkerPoints)
    + PointsIf(i > 0 /\ HasIssuedWith(ParaAt(ps, i - 1)), FormContextPoints)
    + PointsIf(i < Len(ps) - 1 /\ IsUpper(ParaAt(ps, i + 1)), FormContextPoints)
    + PointsIf(i > 0 /\ ContainsTableTag(ParaAt(ps, i - 1)), FormContextPoints)
    + PointsIf(i < Len(ps) - 1 /\ ContainsTableTag(ParaAt(ps, i + 1)),
               FormContextPoints)

\* the points of paragraph i: rules 1 to 6, in the order of the source
FormPoints(ps, i) ==
    PointsIf(HasFormNumber(ParaAt(ps, i)), FormMarkerPoints)
    + PointsIf(i > 0 /\ HasIssuedWith(ParaAt(ps, i - 1)), FormContextPoints)
    + PointsIf(i < Len(ps) - 1 /\ IsUpper(ParaAt(ps, i + 1)), FormContextPoints)
    + PointsIf(i > 0 /\ ContainsTableTag(ParaAt(ps, i - 1)), FormContextPoints)
    + PointsIf(i < Len(ps) - 1 /\ ContainsTableTag(ParaAt(ps, i + 1)),
               FormContextPoints)
    + PointsIf(i < Len(ps) - 1 /\ HasRepublicPhrase(ParaAt(ps, i + 1)),
               FormContextPoints)

\* variant: the paragraph is classified at 40 points
OpensForm_Lax(ps, i) == FormPoints(ps, i) >= FormMarkerPoints

\* if points >= 50
OpensForm(ps, i) == FormPoints(ps, i) >= FormThreshold

\* start_idx = None, 'end': None
NoIndex == -1

\* f"form_{form_counter:02d}"
FormId(form_counter) == <<"form", Sep>> \o TwoDigits(form_counter)

\* the record appended for paragraph i; its text is the stripped paragraph
NewForm(i, form_counter) ==
    [form_id |-> FormId(form_counter),
     text    |-> [para |-> i, lstripped |-> TRUE, rstripped |-> TRUE],
     start   |-> i,
     end     |-> NoIndex]

\* if start_idx is not None: forms[-1]['end'] = idx
ClosePrevious(forms, start_idx, i) ==
    IF start_idx # NoIndex THEN [forms EXCEPT ![Len(forms)].end = i]
    ELSE forms

\* variant: the last form is closed at the index of the last paragraph
CloseLast_AtLastIndex(forms, n) ==
    IF forms # <<>> /\ forms[Len(forms)].end = NoIndex
    THEN [forms EXCEPT ![Len(forms)].end = n - 1]
    ELSE forms

\* if forms and forms[-1]['end'] is None: forms[-1]['end'] = len(paragraphs)
CloseLast(forms, n) ==
    IF forms # <<>> /\ forms[Len(forms)].end = NoIndex
    THEN [forms EXCEPT ![Len(forms)].end = n]
    ELSE forms

\* the chunker's other functions are not running
ChunkerIdle ==
    /\ SegIdle
    /\ LookupIdle
    /\ CleanIdle
    /\ RawIdle
    /\ RenderIdle

FormInit ==
    /\ ChunkerIdle
    /\ FolderIdle
    /\ ServiceIdle
    /\ \E ps \in FormInputs :
          det = [pc |-> "scan", paragraphs |-> ps, idx |-> 0, forms |-> <<>>,
                 form_counter |-> 1, start_idx |-> NoIndex]

\* one iteration of the loop (lines 711-762)
ScoreParagraph ==
    /\ det.pc = "scan"
    /\ det.idx < Len(det.paragraphs)
    /\ det' = IF OpensForm(det.paragraphs, det.idx)
              THEN [det EXCEPT
                      !.forms = Append(ClosePrevious(@, det.start_idx, det.idx),
                                       NewForm(det.idx, det.form_counter)),
                      !.form_counter = @ + 1,
                      !.start_idx = det.idx,
                      !.idx = @ + 1]
              ELSE [det EXCEPT !.idx = @ + 1]
    /\ UNCHANGED notFormVars

\* lines 765-768
ReturnForms ==
    /\ det.pc = "scan"
    /\ det.idx >= Len(det.paragraphs)
    /\ det' = [det EXCEPT !.pc = "done",
                          !.forms = CloseLast(@, Len(det.paragraphs))]
    /\ UNCHANGED notFormVars

FormNext ==
    \/ ScoreParagraph
    \/ ReturnForms

FormSpec == FormInit /\ [][FormNext]_vars

(***************************************************************************)
(* process_folder: one conversion per file of the input folder, in the     *)
(* order of os.walk.  A folder is a sequence of directories, a directory   *)
(* the sequence of its files, a file what its conversion runs into.        *)
(***************************************************************************)
MaxDirs == 2
MaxDirFiles == 2

\* what the conversion of a file runs into: the file is written, no text is
\* extracted, an exception is raised inside the try block of
\* process_raw_file, or one is raised outside of it
FileCases == {"written", "no_text", "raised_inside", "raised_outside"}

Directories == UNION {[1..n -> FileCases] : n \in 0..MaxDirFiles}

Folders == UNION {[1..n -> Directories] : n \in 1..MaxDirs}

\* process_raw_file returns in every case it handles itself: an exception
\* raised inside its try block is logged there and not raised again
process_raw_file(file) ==
    [raised |-> file = "raised_outside",
     written |-> file = "written",
     logged |-> file = "raised_inside"]

convert_raw_to_structured_json(file) == process_raw_file(file)

\* variant: an exception of the conversion leaves the loop over the files
AfterConversion_Propagates(result) == IF result.raised THEN "raised" ELSE "files"

\* the except clause of process_folder logs the exception; the loop goes on
AfterConversion(result) == "files"

FolderInit ==
    /\ ChunkerIdle /\ FormIdle /\ ServiceIdle
    /\ \E tree \in Folders :
         batch = [pc |-> "walk", tree |-> tree, d |-> 1, f |-> 1,
                  attempted |-> <<>>, written |-> {}, errors |-> <<>>]

\* os.walk yields the next directory; its output folder is made
EnterDirectory ==
    /\ batch.pc = "walk"
    /\ batch.d <= Len(batch.tree)
    /\ batch' = [batch EXCEPT !.pc = "files", !.f = 1]
    /\ UNCHANGED notFolderVars

\* one iteration of the loop over the files of the directory
ConvertFile ==
    /\ batch.pc = "files"
    /\ batch.f <= Len(batch.tree[batch.d])
    /\ LET file == <<batch.d, batch.f>>
           result == convert_raw_to_structured_json(batch.tree[batch.d][batch.f])
       IN  batch' = [batch EXCEPT
                       !.pc = AfterConversion(result),
                       !.f = @ + 1,
                       !.attempted = Append(@, file),
                       !.written = IF result.written THEN @ \cup {file} ELSE @,
                       !.errors = IF result.raised \/ result.logged
                                  THEN Append(@, file) ELSE @]
    /\ UNCHANGED notFolderVars

\* the files of the directory are exhausted
LeaveDirectory ==
    /\ batch.pc = "files"
    /\ batch.f > Len(batch.tree[batch.d])
    /\ batch' = [batch EXCEPT !.pc = "walk", !.d = @ + 1]
    /\ UNCHANGED notFolderVars

\* the walk is exhausted: process_folder returns
ReturnFolder ==
    /\ batch.pc = "walk"
    /\ batch.d > Len(batch.tree)
    /\ batch' = [batch EXCEPT !.pc = "done"]
    /\ UNCHANGED notFolderVars

FolderNext == EnterDirectory \/ ConvertFile \/ LeaveDirectory \/ ReturnFolder

FolderSpec == FolderInit /\ [][FolderNext]_vars

(***************************************************************************)
(* The query records of QueryModel.  The table is the set of its items;    *)
(* query_id is its key.  A text is a sequence of characters.               *)
(***************************************************************************)
StoredQueryIds == {"q1", "q2"}

\* md5 keeps different texts apart; the digest stands for its argument
md5(text) == [md5 |-> text]

LowerCase(c) == IF c = "A" THEN "a" ELSE c

lower(text) == [k \in 1..Len(text) |-> LowerCase(text[k])]

generate_cache_key(query_text) == md5(lower(Strip(query_text)))

\* QueryModel(query_id=..., query_text=...): the other fields take their
\* defaults and __init__ fills in the cache key
QueryModel(query_id, query_text) ==
    [query_id |-> query_id,
     query_text |-> query_text,
     cache_key |-> generate_cache_key(query_text),
     answer_text |-> None,
     sources |-> <<>>,
     is_complete |-> FALSE]

ItemsOf(table, query_id) == {r \in table : r.query_id = query_id}

\* get_item returns the item of the key, or None when there is none
get_item(table, query_id) ==
    IF ItemsOf(table, query_id) = {} THEN Unbound
    ELSE Bound(CHOOSE r \in ItemsOf(table, query_id) : TRUE)

\* put_item writes under the condition attribute_not_exists(query_id); the
\* failure of the condition is logged as a warning and put_item returns
put_item(table, item) ==
    IF ItemsOf(table, item.query_id) # {} THEN table
    ELSE table \cup {item}

\* query_rag(query_item, conversation_history, provider=None, ...): a call
\* binds its arguments before anything runs; a call without one of the two
\* required parameters raises TypeError
RequiredParameters == {"query_item", "conversation_history"}

query_rag(arguments) ==
    IF RequiredParameters \subseteq DOMAIN arguments
    THEN [raised |-> FALSE, query_text |-> arguments.query_item.query_text]
    ELSE [raised |-> TRUE]

\* what the coroutine of query_rag returns: a dict with the query response
AnswerText == <<"answer">>

AnswerSources == <<"r1">>

RagResult(query_text) ==
    [query_response |-> [query_text |-> query_text,
                         response_text |-> AnswerText,
                         sources |-> AnswerSources],
     retrieved_docs |-> None]

(***************************************************************************)
(* The queue worker: poll_queue receives a batch of messages, gathers one  *)
(* process_message task per message and sleeps.  The tasks of a batch      *)
(* interleave at their awaits.                                             *)
(***************************************************************************)
MaxMessages == 2
MaxPolls == 2
MAX_MESSAGES == 10

WorkerTexts == {<<"a">>}

\* the body of a message: not JSON, JSON without query_text, or a query
Bodies ==
    {[kind |-> "not_json"]}
    \cup {[kind |-> "no_query_text", query_id |-> q] : q \in StoredQueryIds}
    \cup {[kind |-> "query", query_id |-> q, query_text |-> t] :
            q \in StoredQueryIds, t \in WorkerTexts}

Queues ==
    UNION {{{[ReceiptHandle |-> k, Body |-> bodies[k]] : k \in 1..n} :
              bodies \in [1..n -> Bodies]} : n \in 1..MaxMessages}

\* the tables the endpoint has left: an incomplete record per submitted query
Tables == {{QueryModel(q, t) : q \in S} : S \in SUBSET StoredQueryIds, t \in WorkerTexts}

notWorkerVars == <<chunkerVars, apiVars, putVars>>

RECURSIVE InReceiptOrder(_)
InReceiptOrder(messages) ==
    IF messages = {} THEN <<>>
    ELSE LET first == CHOOSE m \in messages :
                        \A o \in messages : m.ReceiptHandle <= o.ReceiptHandle
         IN  <<first>> \o InReceiptOrder(messages \ {first})

\* the coroutine of process_message before its first step
NewTask(message) ==
    [message |-> message, pc |-> "start", outcome |-> "running",
     query_item |-> Unbound, rag_returned |-> FALSE, put_returned |-> FALSE]

\* variant: the except clause deletes the message
OnException_Deletes(task, messages) ==
    [task |-> [task EXCEPT !.pc = "done", !.outcome = "swallowed"],
     queue |-> messages \ {task.message}]

\* except Exception: the error is logged, the message is left in the queue
OnException(task, messages) ==
    [task |-> [task EXCEPT !.pc = "done", !.outcome = "swallowed"],
     queue |-> messages]

\* process_message from one await to the next; fault says that the awaited
\* operation raises (get_item answers its own exceptions with None)
ProcessStep(task, table, messages, fault) ==
    LET body == task.message.Body
        raised == OnException(task, messages) @@ [db |-> table]
        goes(next) == [task |-> next, queue |-> messages, db |-> table]
    IN
    CASE task.pc = "start" ->
           IF body.kind # "query" THEN raised
           ELSE goes([task EXCEPT !.pc = "get_item"])
      [] task.pc = "get_item" ->
           LET query_item == IF fault THEN Unbound
                             ELSE get_item(table, body.query_id)
           IN  IF ~query_item.bound
               THEN goes([task EXCEPT !.pc = "done", !.outcome = "returned"])
               ELSE IF query_rag([query_item |-> query_item.value,
                                  provider |-> None]).raised
               THEN raised
               ELSE goes([task EXCEPT !.pc = "query_rag",
                                      !.query_item = query_item])
      [] task.pc = "query_rag" ->
           LET response == RagResult(task.query_item.value.query_text) IN
           IF fault \/ "response_text" \notin DOMAIN response THEN raised
           ELSE goes([task EXCEPT
                        !.pc = "put_item",
                        !.rag_returned = TRUE,
                        !.query_item = Bound(
                            [@.value EXCEPT
                               !.answer_text = response.response_text,
                               !.query_text = body.query_text,
                               !.sources = response.sources,
                               !.is_complete = TRUE])])
      [] task.pc = "put_item" ->
           IF fault THEN raised
           ELSE [task |-> [task EXCEPT !.pc = "delete_message",
                                       !.put_returned = TRUE],
                 queue |-> messages,
                 db |-> put_item(table, task.query_item.value)]
      [] task.pc = "delete_message" ->
           IF fault THEN raised
           ELSE [task |-> [task EXCEPT !.pc = "done", !.outcome = "deleted"],
                 queue |-> messages \ {task.message},
                 db |-> table]

WorkerInit ==
    /\ ChunkerIdle /\ FormIdle /\ FolderIdle
    /\ api = [pc |-> "idle"]
    /\ put = [pc |-> "idle"]
    /\ queue \in Queues
    /\ db \in Tables
    /\ tasks = <<>>
    /\ poller = [pc |-> "receive", polls |-> 1]

\* receive_message returns some messages of the queue, at most MAX_MESSAGES;
\* one task per message is made
ReceiveMessages ==
    /\ poller.pc = "receive"
    /\ \E messages \in SUBSET queue :
         /\ Cardinality(messages) <= MAX_MESSAGES
         /\ tasks' = [k \in 1..Cardinality(messages) |->
                        NewTask(InReceiptOrder(messages)[k])]
         /\ poller' = [poller EXCEPT
                         !.pc = IF messages = {} THEN "sleep" ELSE "gather"]
    /\ UNCHANGED <<queue, db, notWorkerVars>>

\* receive_message raises: poll_queue logs the error and goes to sleep
ReceiveFails ==
    /\ poller.pc = "receive"
    /\ poller' = [poller EXCEPT !.pc = "sleep"]
    /\ UNCHANGED <<queue, tasks, db, notWorkerVars>>

\* one task of the batch runs to its next await
ProcessMessage ==
    /\ poller.pc = "gather"
    /\ \E k \in DOMAIN tasks, fault \in BOOLEAN :
         /\ tasks[k].pc # "done"
         /\ LET step == ProcessStep(tasks[k], db, queue, fault) IN
              /\ tasks' = [tasks EXCEPT ![k] = step.task]
              /\ queue' = step.queue
              /\ db' = step.db
    /\ UNCHANGED <<poller, notWorkerVars>>

\* asyncio.gather returns when every task of the batch has returned
GatherReturns ==
    /\ poller.pc = "gather"
    /\ \A k \in DOMAIN tasks : tasks[k].pc = "done"
    /\ tasks' = <<>>
    /\ poller' = [poller EXCEPT !.pc = "sleep"]
    /\ UNCHANGED <<queue, db, notWorkerVars>>

\* asyncio.sleep(POLL_INTERVAL) returns: the next poll
Sleep ==
    /\ poller.pc = "sleep"
    /\ poller.polls < MaxPolls
    /\ poller' = [poller EXCEPT !.pc = "receive", !.polls = @ + 1]
    /\ UNCHANGED <<queue, tasks, db, notWorkerVars>>

WorkerNext ==
    ReceiveMessages \/ ReceiveFails \/ ProcessMessage \/ GatherReturns \/ Sleep

WorkerSpec == WorkerInit /\ [][WorkerNext]_vars

(***************************************************************************)
(* submit_query_endpoint with the development processor: DEVELOPMENT_MODE  *)
(* is "true", which api_handler reads as development mode and QueryModel   *)
(* (which compares with "True") does not, so LocalProcessor runs against   *)
(* the table.  The requests are handled one after another.                 *)
(***************************************************************************)
MaxSubmits == 3

QueryTexts == {<<"a">>, <<"A">>, <<" ", "a">>, <<"b">>}

\* detect_intention: the two intentions answered directly, and any other
Intentions == {"irrelevant", "history", "legal"}

DirectIntentions == {"irrelevant", "history"}

\* cache_key = md5(query_text.encode('utf-8')).hexdigest()
EndpointKey(query_text) == md5(query_text)

\* str(uuid.uuid4()): an id never issued before
NewQueryId(issued) == <<"uuid", issued + 1>>

\* the items the query on the index cache_key-index can return
get_item_by_cache_key(table, cache_key) == {r \in table : r.cache_key = cache_key}

\* update_item sets the fields of the item on the record of the key
update_item(table, query_id, query_item) ==
    (table \ ItemsOf(table, query_id)) \cup {query_item}

notApiVars == <<chunkerVars, workerVars, putVars>>

WorkerIdle == queue = {} /\ tasks = <<>> /\ poller = [pc |-> "idle"]

ApiInit ==
    /\ ChunkerIdle /\ FormIdle /\ FolderIdle /\ WorkerIdle
    /\ put = [pc |-> "idle"]
    /\ db = {}
    /\ api = [pc |-> "ready", submits |-> 0, issued |-> 0]

\* the request arrives: lines 233-250, up to the answer of the detector
SubmitQuery ==
    /\ api.pc \in {"ready", "responded", "failed"}
    /\ api.submits < MaxSubmits
    /\ \E query_text \in QueryTexts, intention \in Intentions :
         api' = [pc |-> IF intention \in DirectIntentions
                        THEN "responded" ELSE "lookup",
                 submits |-> api.submits + 1,
                 issued |-> api.issued + 1,
                 query_text |-> query_text,
                 cache_key |-> EndpointKey(query_text),
                 query_id |-> NewQueryId(api.issued),
                 intention |-> intention,
                 lookup_failed |-> FALSE,
                 processed |-> FALSE,
                 response_id |-> NewQueryId(api.issued)]
    /\ UNCHANGED <<db, notApiVars>>

\* the lookup by cache key finds a complete record and the endpoint answers
\* with it (lines 253-261)
CacheHit ==
    /\ api.pc = "lookup"
    /\ \E existing_query \in get_item_by_cache_key(db, api.cache_key) :
         /\ existing_query.is_complete
         /\ api' = [api EXCEPT !.pc = "responded",
                               !.response_id = existing_query.query_id]
    /\ UNCHANGED <<db, notApiVars>>

\* the lookup returns None or an incomplete record
CacheMiss ==
    /\ api.pc = "lookup"
    /\ \E failed \in BOOLEAN :
         /\ \/ failed
            \/ get_item_by_cache_key(db, api.cache_key) = {}
            \/ \E existing_query \in get_item_by_cache_key(db, api.cache_key) :
                 ~existing_query.is_complete
         /\ api' = [api EXCEPT !.pc = "put_item", !.lookup_failed = failed]
    /\ UNCHANGED <<db, notApiVars>>

\* new_query = QueryModel(query_id=query_id, query_text=query_text) is put;
\* an error other than the failed condition is raised and answered with 500
PutNewQuery ==
    /\ api.pc = "put_item"
    /\ \E fault \in BOOLEAN :
         IF fault
         THEN /\ api' = [api EXCEPT !.pc = "failed"]
              /\ db' = db
         ELSE /\ api' = [api EXCEPT !.pc = "process_query"]
              /\ db' = put_item(db, QueryModel(api.query_id, api.query_text))
    /\ UNCHANGED notApiVars

\* LocalProcessor.process_query: the RAG call, then update_item, whose
\* failure is the return value False, which is not looked at
ProcessQuery ==
    /\ api.pc = "process_query"
    /\ \E rag_fault \in BOOLEAN, updated \in BOOLEAN :
         LET query == QueryModel(api.query_id, api.query_text)
             rag_call == query_rag([query_item |-> query,
                                    conversation_history |-> <<>>,
                                    llm_provider_name |-> None])
             query_response == RagResult(query.query_text).query_response
             completed == [query EXCEPT
                             !.answer_text = query_response.response_text,
                             !.sources = query_response.sources,
                             !.is_complete = TRUE]
         IN  IF rag_call.raised \/ rag_fault
             THEN /\ api' = [api EXCEPT !.pc = "failed", !.processed = TRUE]
                  /\ db' = db
             ELSE /\ api' = [api EXCEPT !.pc = "responded", !.processed = TRUE]
                  /\ db' = IF updated
                           THEN update_item(db, query.query_id, completed)
                           ELSE db
    /\ UNCHANGED notApiVars

ApiNext == SubmitQuery \/ CacheHit \/ CacheMiss \/ PutNewQuery \/ ProcessQuery

ApiSpec == ApiInit /\ [][ApiNext]_vars

(***************************************************************************)
(* QueryModel.put_item on its own: a table and an item are drawn, the item *)
(* is put.  The items are those a caller holds after get_item, with and    *)
(* without the fields of an answer set.                                    *)
(***************************************************************************)
MaxItems == 3

ItemIds == 1..MaxItems

ItemTexts == {<<"a">>, <<"b">>}

\* the fields a caller sets from the response before put_item
Answered(item) ==
    [item EXCEPT !.answer_text = AnswerText,
                 !.sources = AnswerSources,
                 !.is_complete = TRUE]

Items ==
    {QueryModel(q, t) : q \in ItemIds, t \in ItemTexts}
    \cup {Answered(QueryModel(q, t)) : q \in ItemIds, t \in ItemTexts}

\* query_id is the key of the table: at most one item for an id
ItemTables ==
    {table \in SUBSET Items :
        \A r \in table, o \in table : r.query_id = o.query_id => r = o}

notPutVars == <<chunkerVars, workerVars, apiVars>>

PutInit ==
    /\ ChunkerIdle /\ FormIdle /\ FolderIdle /\ WorkerIdle
    /\ api = [pc |-> "idle"]
    /\ db \in ItemTables
    /\ \E item \in Items :
         put = [pc |-> "called", item |-> item,
                existed |-> ItemsOf(db, item.query_id) # {}]

\* await item.put_item() returns
PutItemReturns ==
    /\ put.pc = "called"
    /\ db' = put_item(db, put.item)
    /\ put' = [put EXCEPT !.pc = "returned"]
    /\ UNCHANGED notPutVars

\* table.put_item fails with an error other than the failed condition:
\* put_item logs it and raises it again
PutItemRaises ==
    /\ put.pc = "called"
    /\ put' = [put EXCEPT !.pc = "raised"]
    /\ UNCHANGED <<db, notPutVars>>

PutNext == PutItemReturns \/ PutItemRaises

PutSpec == PutInit /\ [][PutNext]_vars

(***************************************************************************)
(* Properties of identify_and_segment_document (checked under SegSpec)     *)
(***************************************************************************)
Returned == pc = "done"

Indices == 0..(Len(paragraphs) - 1)

\* the paragraph at i is a table-tagged signature block (closing rule A)
TableSignatureAt(i) ==
    /\ HasTableTags(ParaAt(paragraphs, i))
    /\ MatchesSignature(ParaAt(paragraphs, i))

\* one of the 3 paragraphs after i carries the issued-with / preamble phrase
PhraseAfter(i) ==
    \E j \in Indices :
        j > i /\ j <= i + 3 /\ HasIssuedPhrase(ParaAt(paragraphs, j))

\* one of the 3 paragraphs before i carries the addressee / signed phrase
PhraseBefore(i) ==
    \E j \in Indices :
        j < i /\ j >= i - 3 /\ HasAddresseePhrase(ParaAt(paragraphs, j))

\* a marker paragraph that reaches the scoring of rule B
ScoredMarkerAt(i) ==
    MatchesAppendixMarker(ParaAt(paragraphs, i)) /\ ~TableSignatureAt(i)

AcceptedMarkerAt(i) == ScoredMarkerAt(i) /\ (PhraseAfter(i) \/ PhraseBefore(i))

RejectedMarkerAt(i) == ScoredMarkerAt(i) /\ ~PhraseAfter(i) /\ ~PhraseBefore(i)

\* the lines of all returned segments, in list order
RECURSIVE LinesOf(_)
LinesOf(segs) ==
    IF segs = <<>> THEN <<>>
    ELSE LinesOf(SubSeq(segs, 1, Len(segs) - 1)) \o segs[Len(segs)].content

\* C1: the returned list has doc_number 1, 2, ..., N in list order
C1_DocNumbersContiguous ==
    Returned => \A k \in 1..Len(segments) : segments[k].doc_number = k

\* C1 witness: a return of at least two segments after a signature-block
\* close, an accepted marker and a rejected marker
C1_Witness ==
    /\ Returned
    /\ Len(segments) >= 2
    /\ \E i \in Indices : TableSignatureAt(i)
    /\ \E i \in Indices : AcceptedMarkerAt(i)
    /\ \E i \in Indices : RejectedMarkerAt(i)

\* C2: read in order, the lines of the returned segments are the input's
\* paragraphs in original order, none twice, and every paragraph that did
\* not trigger a close is present
C2_ContiguousNonOverlapping ==
    Returned =>
        LET lines == LinesOf(segments) IN
        /\ \A k \in 1..(Len(lines) - 1) : lines[k].para < lines[k + 1].para
        /\ \A i \in Indices :
              (~TableSignatureAt(i) /\ ~AcceptedMarkerAt(i)
                 /\ ~IsBlank(ParaAt(paragraphs, i)))
              => \E k \in 1..Len(lines) : lines[k].para = i

\* C3: a scored marker paragraph with a supporting phrase opens a segment
\* whose content begins with it; a non-empty main body followed by k such
\* markers (and no signature-block close) yields k + 1 segments
C3_AcceptedMarkerOpensSegment ==
    Returned =>
        /\ \A i \in Indices :
              AcceptedMarkerAt(i) =>
                \E k \in 1..Len(segments) :
                    segments[k].content[1] = StrippedLine(i)
        /\ LET acc == {i \in Indices : AcceptedMarkerAt(i)} IN
           ( /\ acc # {}
             /\ \A i \in Indices : ~TableSignatureAt(i)
             /\ \E j \in Indices :
                   /\ ~IsBlank(ParaAt(paragraphs, j))
                   /\ \A i \in acc : j < i )
           => Len(segments) = Cardinality(acc) + 1

\* C3 witness: a non-empty main body followed by two accepted markers
\* returned as three segments
C3_Witness ==
    /\ Returned
    /\ Cardinality({i \in Indices : AcceptedMarkerAt(i)}) = 2
    /\ \A i \in Indices : ~TableSignatureAt(i)
    /\ ~IsBlank(ParaAt(paragraphs, 0))
    /\ ~AcceptedMarkerAt(0)
    /\ Len(segments) = 3

\* the text with the marker prefix of paragraph i turned into plain prose
AsProse(p) ==
    CASE p = "marker" -> "plain"
      [] p = "markerPreamble" -> "preamble"
      [] p = "markerSigTable" -> "sigTable"
      [] OTHER -> p

WithProseAt(ps, i) == [ps EXCEPT ![i + 1] = AsProse(@)]

\* C4: a scored marker paragraph with no supporting phrase in the 3
\* paragraphs after it and none in the 3 before it is appended to the
\* current segment, no segment is closed or opened by it, and the call
\* returns as many segments as for the same text with prose in its place
C4_StepAppends ==
    (pc = "scan" /\ idx < Len(paragraphs) /\ RejectedMarkerAt(idx))
    => /\ segments' = segments
       /\ current_segment'.doc_number = current_segment.doc_number
       /\ current_segment'.content =
             Append(current_segment.content, StrippedLine(idx))

C4_SameCountAsProse ==
    Returned =>
        \A i \in Indices :
            RejectedMarkerAt(i) =>
                Len(segments) = Len(SegmentsOf(WithProseAt(paragraphs, i)))

C4_RejectedMarkerIsContent ==
    [][C4_StepAppends]_vars /\ []C4_SameCountAsProse

\* C4 witness: a rejected marker in the middle of a returned segment
C4_Witness ==
    /\ Returned
    /\ \E i \in Indices :
          /\ RejectedMarkerAt(i)
          /\ \E k \in 1..Len(segments) :
                \E m \in 2..Len(segments[k].content) :
                    segments[k].content[m] = StrippedLine(i)

NoMarkerParagraph ==
    \A i \in Indices : ~MatchesAppendixMarker(ParaAt(paragraphs, i))

OneSegmentNumberedOne ==
    Len(segments) = 1 /\ segments[1].doc_number = 1

\* C5 as stated: a text without marker paragraphs yields exactly one
\* segment, numbered 1
C5_NoMarkerOneSegment_Original ==
    (Returned /\ NoMarkerParagraph) => OneSegmentNumberedOne

\* C5 amended: a text with at least one non-blank paragraph, no marker
\* paragraph and no table-tagged signature block yields exactly one
\* segment, numbered 1
C5_NoBoundaryOneSegment ==
    ( /\ Returned
      /\ NoMarkerParagraph
      /\ \A i \in Indices : ~TableSignatureAt(i)
      /\ \E i \in Indices : ~IsBlank(ParaAt(paragraphs, i)) )
    => OneSegmentNumberedOne

\* C5 witness: three or more paragraphs, none a marker or a table-tagged
\* signature block, returned as one segment
C5_Witness ==
    /\ Returned
    /\ Len(paragraphs) >= 3
    /\ NoMarkerParagraph
    /\ \A i \in Indices : ~TableSignatureAt(i)
    /\ \E i \in Indices : ParaAt(paragraphs, i) = "sigPlain"
    /\ OneSegmentNumberedOne

\* C6: a paragraph matching the signature-block pattern, plain or
\* table-tagged, closes the current segment and a new one is opened
C6_StepCloses ==
    ( /\ pc = "scan"
      /\ idx < Len(paragraphs)
      /\ MatchesSignature(ParaAt(paragraphs, idx)) )
    => /\ current_segment' =
             [doc_number |-> Len(segments') + 1, content |-> <<>>]
       /\ \/ segments' = segments
          \/ segments' = Append(segments, current_segment)

C6_SignatureBlockCloses == [][C6_StepCloses]_vars

\* C7: every returned segment has a non-blank line
C7_NoEmptySegment ==
    Returned =>
        \A k \in 1..Len(segments) :
            \E m \in 1..Len(segments[k].content) :
                ParaAt(paragraphs, segments[k].content[m].para) # "blank"

\* C7 witness: a return where a boundary was reached with an empty segment
\* (signature block first) and the input ended with an empty segment
\* (signature block last)
C7_Witness ==
    /\ Returned
    /\ Len(paragraphs) >= 3
    /\ TableSignatureAt(0)
    /\ TableSignatureAt(Len(paragraphs) - 1)
    /\ Len(segments) = 1

(***************************************************************************)
(* Properties of the section locator (checked under LookupSpec)            *)
(***************************************************************************)
\* every node of a forest, at any depth
RECURSIVE NodesIn(_)
NodesIn(nodes) ==
    UNION {{nodes[k]} \cup NodesIn(nodes[k].subsections) : k \in 1..Len(nodes)}

\* every node stored in a file
NodesOfFile(f) ==
    UNION {NodesIn(f.documents[d].articles) : d \in 1..Len(f.documents)}

\* a call of retrieve_section_text on a file that exists and parses
CalledOnFile ==
    /\ call.fn = "retrieve_section_text"
    /\ call.path # MissingPath
    /\ store[call.path].loads

\* the rendering retrieve_section_text gives for a located node
Rendering(node) == process_section(node, 0, FALSE, <<>>)

\* C8: called with the full id of a node stored in the file, main document
\* or appendix, retrieve_section_text returns the rendering of that node
C8_ExactLookupFindsNode ==
    CalledOnFile =>
        \A node \in NodesOfFile(store[call.path]) :
            (node.has_id /\ node.id = call.section_id)
            => (call.status = "returned" /\ call.value = Rendering(node))

DOC1_art003 == <<"DOC1", Sep, "art003">>

DOC2_art003 == <<"DOC2", Sep, "art003">>

\* C9: a file holding node DOC2_art003 in document DOC2 and no node
\* DOC1_art003, asked for DOC1_art003, returns the rendering of DOC2_art003
C9_FuzzyLookupAcrossPrefix ==
    ( /\ CalledOnFile
      /\ call.section_id = DOC1_art003
      /\ \A node \in NodesOfFile(store[call.path]) :
            ~(node.has_id /\ node.id = DOC1_art003) )
    => \A d \in 1..Len(store[call.path].documents) :
         LET document == store[call.path].documents[d] IN
         \A node \in NodesIn(document.articles) :
            (document.doc_id = <<"DOC2">> /\ node.has_id
               /\ node.id = DOC2_art003)
            => (call.status = "returned" /\ call.value = Rendering(node))

\* the text after the first "_" of id, when there is one
HasMarkerPart(id, marker) ==
    \E k \in 1..Len(id) :
        /\ id[k] = Sep
        /\ \A j \in 1..(k - 1) : id[j] # Sep
        /\ marker = SubSeq(id, k + 1, Len(id))

\* the file holds no node matching id exactly or by suffix
NoNodeMatches(f, id) ==
    \A node \in NodesOfFile(f) :
        node.has_id =>
            /\ node.id # id
            /\ \A k \in 1..Len(node.id) :
                 ~(node.id[k] = Sep
                     /\ HasMarkerPart(id, SubSeq(node.id, k + 1, Len(node.id))))

\* a lookup in file f for id is a miss: no documents, or no matching node
MissIn(f, id) == f.loads /\ (f.documents = <<>> \/ NoNodeMatches(f, id))

CalledOnFolder ==
    /\ call.fn = "retrieve_section_text_from_folder"
    /\ call.path = "json_folder"

\* the files of the folder for which retrieve_section_text gives a
\* non-empty text for id
HitsFor(files, id) ==
    {k \in 1..Len(files) :
        /\ files[k].is_json
        /\ retrieve_section_text(id, files, k).status = "returned"
        /\ retrieve_section_text(id, files, k).value # <<>>}

\* C11: retrieve_section_text_from_folder returns the result of the first
\* file, in enumeration order, for which retrieve_section_text gives a
\* non-empty text; the files after it do not change the result
C11_FirstMatchWins ==
    (CalledOnFolder /\ HitsFor(store, call.section_id) # {})
    => LET first == Lowest(HitsFor(store, call.section_id)) IN
       /\ call.status = "returned"
       /\ call.value =
            retrieve_section_text(call.section_id, store, first).value
       /\ \A f \in FileChoices :
            LET other == [store EXCEPT ![Len(store)] = f] IN
            first < Len(store) =>
                retrieve_section_text_from_folder(call.section_id, other,
                                                  "json_folder").value
                = call.value

\* the listings of the folder: the same files in any order
Listings(files) ==
    {[i \in 1..Len(files) |-> files[p[i]]] :
        p \in {q \in [1..Len(files) -> 1..Len(files)] :
                 \A i, j \in 1..Len(files) : q[i] = q[j] => i = j}}

\* C12: the result of retrieve_section_text_from_folder is fixed by the
\* files the folder holds, whatever order the filesystem lists them in
\* (stated for folders whose files all parse)
C12_ListingOrderIrrelevant ==
    (CalledOnFolder /\ \A k \in 1..Len(store) : store[k].loads)
    => \A listing \in Listings(store) :
         LET r == retrieve_section_text_from_folder(call.section_id, listing,
                                                    "json_folder")
         IN r.status = call.status /\ r.value = call.value

\* C13: a JSON file that does not parse does not abort the search; a
\* match in a file enumerated after it is returned
C13_UnparsableFileIsSkipped ==
    ( /\ CalledOnFolder
      /\ \E k \in 1..Len(store), j \in HitsFor(store, call.section_id) :
            store[k].is_json /\ ~store[k].loads /\ k < j )
    => /\ call.status = "returned"
       /\ \E j \in HitsFor(store, call.section_id) :
            call.value =
              retrieve_section_text(call.section_id, store, j).value

(***************************************************************************)
(* Properties of clean_redundant_content (checked under CleanSpec)         *)
(***************************************************************************)
\* C14: a second application of clean_redundant_content changes nothing
C14_CleanIdempotent ==
    passes = 2 => sections = before

\* t occurs in s as a run of consecutive characters
OccursIn(t, s) ==
    \E i \in 1..(Len(s) - Len(t) + 1) : SubSeq(s, i, i + Len(t) - 1) = t

\* the text without the whitespace at its ends
Trimmed(s) ==
    IF \A i \in 1..Len(s) : s[i] = " " THEN <<>>
    ELSE LET i == CHOOSE i \in 1..Len(s) :
                    s[i] # " " /\ \A j \in 1..(i - 1) : s[j] = " "
             k == CHOOSE k \in 1..Len(s) :
                    s[k] # " " /\ \A j \in (k + 1)..Len(s) : s[j] = " "
         IN SubSeq(s, i, k)

\* C15: after the call, no node with subsections and non-empty content
\* holds the non-empty stripped title or content of a direct subsection
C15_NoChildTextInParent ==
    passes >= 1 =>
        \A node \in NodesIn(sections) :
            \A k \in 1..Len(node.subsections) :
                LET sub == node.subsections[k] IN
                /\ Trimmed(sub.content) # <<>>
                     => ~OccursIn(Trimmed(sub.content), node.content)
                /\ Trimmed(sub.title) # <<>>
                     => ~OccursIn(Trimmed(sub.title), node.content)

(***************************************************************************)
(* Properties of process_raw_file (checked under RawSpec)                  *)
(***************************************************************************)
\* process_raw_file has written its output file
Written ==
    /\ conv.pc \in {"done", "reconstructed"}
    /\ conv.text # <<>>
    /\ out_file.exists

\* the nodes of a forest in document order, every node before its
\* subsections
RECURSIVE PreOrder(_)
PreOrder(nodes) ==
    IF nodes = <<>> THEN <<>>
    ELSE <<nodes[1]>> \o PreOrder(nodes[1].subsections)
         \o PreOrder(Tail(nodes))

\* C16: every node of every written document carries an id, and no two
\* nodes of one document have the same id
C16_NodeIdsPresentAndDistinct ==
    Written =>
        \A d \in 1..Len(out_file.documents) :
            LET tree == PreOrder(out_file.documents[d].articles) IN
            /\ \A i \in 1..Len(tree) : tree[i].has_id
            /\ \A i, j \in 1..Len(tree) : i # j => tree[i].id # tree[j].id

\* the segments of the text being converted
SegmentsOfText == SegmentsOf(conv.text)

\* the id written in the main document: that of a "number" paragraph of
\* segment 1, "" when segment 1 has none
MainIdOfText ==
    IF \E k \in 1..Len(SegmentsOfText[1].content) :
            conv.text[SegmentsOfText[1].content[k].para + 1] = "number"
    THEN <<"DOC1">> ELSE <<>>

\* n written with two digits
AsTwoDigits(n) ==
    << <<"0", "1", "2", "3", "4", "5", "6", "7", "8", "9">>[(n \div 10) + 1],
       <<"0", "1", "2", "3", "4", "5", "6", "7", "8", "9">>[(n % 10) + 1] >>

\* C17: segment 1 gets the main document's id, segment n > 1 gets
\* main_id + "_appendix_" + n in two digits; the conversion never fails on
\* an undefined base id; the doc_ids of one file are pairwise distinct
C17_DocIds ==
    /\ conv.pc # "failed"
    /\ Written =>
        LET docs == out_file.documents IN
        /\ \A d \in 1..Len(docs) :
              IF docs[d].doc_number = 1
              THEN docs[d].doc_id = MainIdOfText
              ELSE docs[d].doc_id =
                      MainIdOfText \o <<"_", "appendix", "_">>
                                   \o AsTwoDigits(docs[d].doc_number)
        /\ \A d, e \in 1..Len(docs) : d # e => docs[d].doc_id # docs[e].doc_id

\* a file with the main document, identified, and an appendix
C17_Witness ==
    /\ Written
    /\ Len(out_file.documents) >= 2
    /\ out_file.documents[1].doc_id = <<"DOC1">>
    /\ out_file.documents[2].doc_number = 2

\* no paragraph of the segment is a hierarchy marker
NoHierarchyMarkerIn(segment) ==
    \A k \in 1..Len(segment.content) :
        conv.text[segment.content[k].para + 1] # "article"

\* C18: a segment without hierarchy markers is written as one node with
\* empty header and title, no subsections and the whole segment text as
\* content; the conversion does not fail and no segment is left out
C18_UntaggedSegmentIsOneNode ==
    /\ conv.pc # "failed"
    /\ (conv.pc = "done" /\ conv.text # <<>>) =>
        /\ Written
        /\ Len(out_file.documents) = Len(SegmentsOfText)
        /\ \A k \in 1..Len(SegmentsOfText) :
              NoHierarchyMarkerIn(SegmentsOfText[k]) =>
                 LET doc == out_file.documents[k] IN
                 /\ doc.doc_number = SegmentsOfText[k].doc_number
                 /\ Len(doc.articles) = 1
                 /\ doc.articles[1].header = ""
                 /\ doc.articles[1].title = ""
                 /\ doc.articles[1].subsections = <<>>
                 /\ doc.articles[1].content = SegmentsOfText[k].content

\* a written file whose second segment has no hierarchy marker
C18_Witness ==
    /\ conv.pc = "done"
    /\ Written
    /\ Len(out_file.documents) = 2
    /\ NoHierarchyMarkerIn(SegmentsOfText[2])
    /\ out_file.documents[2].articles[1].content # <<>>

\* the non-blank paragraphs of the text, in order: a marker paragraph by
\* its words, any other paragraph by its index
RECURSIVE OriginalParagraphs(_, _)
OriginalParagraphs(ps, i) ==
    IF i >= Len(ps) THEN <<>>
    ELSE (IF ps[i + 1] = "blank" THEN <<>>
          ELSE IF ps[i + 1] = "article"
               THEN <<[parts |-> <<ArticleHeaders[i + 1]>>]>>
          ELSE <<[para |-> i]>>)
         \o OriginalParagraphs(ps, i + 1)

\* the non-blank paragraphs of a content
RECURSIVE ContentParagraphs(_, _, _)
ContentParagraphs(ps, content, k) ==
    IF k > Len(content) THEN <<>>
    ELSE (IF ps[content[k].para + 1] = "blank" THEN <<>>
          ELSE <<[para |-> content[k].para]>>)
         \o ContentParagraphs(ps, content, k + 1)

\* the non-blank paragraphs of a reconstructed text, in order
RECURSIVE OutputParagraphs(_, _, _)
OutputParagraphs(ps, lines, k) ==
    IF k > Len(lines) THEN <<>>
    ELSE (IF "body" \in DOMAIN lines[k]
          THEN ContentParagraphs(ps, lines[k].text[1], 1)
          ELSE IF lines[k].text = <<>> THEN <<>>
          ELSE <<[parts |-> lines[k].text]>>)
         \o OutputParagraphs(ps, lines, k + 1)

\* the text has no appendix marker and no table tags
NoMarkerNoTable ==
    \A i \in 1..Len(conv.text) :
        conv.text[i] \notin {"marker", "sigTable"}

\* C19: for a text without appendix markers and table tags, the text
\* reconstructed from the written file has the paragraphs of the original,
\* in the same order, whitespace aside
C19_RoundTrip ==
    (conv.pc = "reconstructed" /\ conv.text # <<>> /\ NoMarkerNoTable) =>
        OutputParagraphs(conv.text, full_text, 1)
            = OriginalParagraphs(conv.text, 0)

(***************************************************************************)
(* Properties of full-hierarchy rendering (checked under RenderSpec)       *)
(***************************************************************************)
\* the paths to the nodes of a forest in document order; a path is the
\* sequence of positions that leads from the top level to the node
RECURSIVE PathsFrom(_, _, _)
PathsFrom(nodes, prefix, k) ==
    IF k > Len(nodes) THEN <<>>
    ELSE <<Append(prefix, k)>>
         \o PathsFrom(nodes[k].subsections, Append(prefix, k), 1)
         \o PathsFrom(nodes, prefix, k + 1)

RECURSIVE NodeAt(_, _)
NodeAt(nodes, path) ==
    IF Len(path) = 1 THEN nodes[path[1]]
    ELSE NodeAt(nodes[path[1]].subsections, Tail(path))

\* the header of the node at the path, then those of its ancestors from
\* the nearest to the root, the empty ones left out
ReferenceChain(nodes, path) ==
    LET headers == [j \in 1..Len(path) |->
                       NodeAt(nodes, SubSeq(path, 1, Len(path) + 1 - j)).header]
        Named(h) == h # ""
    IN SelectSeq(headers, Named)

\* the reference lines the claim describes, for the nodes at the paths
\* from the k-th on: a node at depth N (the top level being depth 0) has
\* the line of its chain at indentation N, or no line if the chain is empty
RECURSIVE ExpectedReferences(_, _, _)
ExpectedReferences(nodes, paths, k) ==
    IF k > Len(paths) THEN <<>>
    ELSE (IF ReferenceChain(nodes, paths[k]) = <<>> THEN <<>>
          ELSE <<[indent |-> Len(paths[k]) - 1,
                  text |-> ReferenceChain(nodes, paths[k])]>>)
         \o ExpectedReferences(nodes, paths, k + 1)

\* the lines of a reconstructed text that are neither content, nor blank,
\* nor the separator
ReferenceLines(lines) ==
    LET IsReference(l) ==
            /\ "body" \notin DOMAIN l
            /\ l.text # <<>>
            /\ l.text # <<"--------------------------------------------------------------------------------">>
    IN SelectSeq(lines, IsReference)

\* C20: in the text reconstruct_text gives for a file, the reference line
\* of a node at depth N is indented N levels and holds the node's header
\* followed by its ancestors' headers from nearest to root, empty headers
\* left out; a node with an empty header still shows its ancestors; a node
\* whose chain is empty has no reference line
C20_FullReferenceLines ==
    full_text # <<>> =>
        LET articles == json_file.documents[1].articles IN
        ReferenceLines(full_text)
            = ExpectedReferences(articles, PathsFrom(articles, <<>>, 1), 1)

\* a rendered file in which a node at depth 2 without a header lies under
\* a headed node at depth 1, itself under a root without a header, and has
\* a sibling
C20_Witness ==
    /\ full_text # <<>>
    /\ LET root == json_file.documents[1].articles[1] IN
       /\ root.header = ""
       /\ Len(root.subsections) = 2
       /\ root.subsections[1].header # ""
       /\ Len(root.subsections[1].subsections) = 2
       /\ root.subsections[1].subsections[1].header = ""
       /\ root.subsections[1].subsections[2].header # ""

\* the nodes of the reconstructed file, at any depth
RenderedNodes == NodesIn(json_file.documents[1].articles)

\* the lines of markup that must not reach the output
MarkupLines ==
    {"<table>", "</table>", "<tr>", "</tr>", "<td>A</td>", "<td>B</td>"}

\* C21: in the reconstructed text no line of table markup appears, and
\* every table row held in a node's content is written as one line of its
\* cell texts
C21_TablesAreRendered ==
    full_text # <<>> =>
        /\ \A k \in 1..Len(full_text) :
              "body" \in DOMAIN full_text[k] =>
                 \A j \in 1..Len(full_text[k].text[1]) :
                     full_text[k].text[1][j] \notin MarkupLines
        /\ \A node \in RenderedNodes :
              (\E j \in 1..Len(node.content) : node.content[j] = "<tr>") =>
                 \E k \in 1..Len(full_text) :
                     /\ "cells" \in DOMAIN full_text[k]
                     /\ full_text[k].cells = <<"A", "B">>

(***************************************************************************)
(* Properties of detect_forms_in_appendix (checked under FormSpec)         *)
(***************************************************************************)
\* the paragraph at index i of the appendix, "none" outside the text
FormParagraph(i) ==
    IF i >= 0 /\ i < Len(det.paragraphs) THEN det.paragraphs[i + 1] ELSE "none"

\* the five context signals of paragraph i
PrevIssued(i) == FormParagraph(i - 1) \in {"issued", "issuedTable"}

PrevTable(i) ==
    FormParagraph(i - 1) \in {"table", "issuedTable", "tablePreamble"}

NextTable(i) ==
    FormParagraph(i + 1) \in {"table", "issuedTable", "tablePreamble"}

NextUpper(i) == FormParagraph(i + 1) \in {"upper", "upperPreamble"}

NextPreamble(i) ==
    FormParagraph(i + 1) \in {"preamble", "upperPreamble", "tablePreamble"}

ContextSignals(i) ==
    {s \in {"prevIssued", "prevTable", "nextTable", "nextUpper", "nextPreamble"} :
        \/ s = "prevIssued" /\ PrevIssued(i)
        \/ s = "prevTable" /\ PrevTable(i)
        \/ s = "nextTable" /\ NextTable(i)
        \/ s = "nextUpper" /\ NextUpper(i)
        \/ s = "nextPreamble" /\ NextPreamble(i)}

\* the score the claim gives paragraph i
ClaimedScore(i) ==
    (IF FormParagraph(i) = "form" THEN 40 ELSE 0)
    + 10 * Cardinality(ContextSignals(i))

\* the indices scored so far with a claimed score of 50 or more, in order
RECURSIVE ScoredFrom(_)
ScoredFrom(i) ==
    IF i >= det.idx THEN <<>>
    ELSE (IF ClaimedScore(i) >= 50 THEN <<i>> ELSE <<>>) \o ScoredFrom(i + 1)

C23_HalfOpenRanges ==
    det.pc = "done" =>
        /\ \A k \in 1..Len(det.forms) :
              /\ det.forms[k].end # -1
              /\ det.forms[k].start < det.forms[k].end
        /\ \A k \in 1..(Len(det.forms) - 1) :
              /\ det.forms[k].start < det.forms[k + 1].start
              /\ det.forms[k].end = det.forms[k + 1].start
        /\ det.forms # <<>> =>
              det.forms[Len(det.forms)].end = Len(det.paragraphs)

\* a returned list of two records, the last opened at the last paragraph
C23_Witness ==
    /\ det.pc = "done"
    /\ Len(det.forms) = 2
    /\ det.forms[2].start = Len(det.paragraphs) - 1

\* C26: no record starts at a paragraph without the form-number marker;
\* no paragraph is both upper-case and table-tagged, so the context signals
\* give 40 points at most
C26_NoRecordWithoutMarker ==
    det.pc \in {"scan", "done"} =>
        /\ \A k \in 1..Len(det.forms) :
              FormParagraph(det.forms[k].start) = "form"
        /\ \A i \in 0..(Len(det.paragraphs) - 1) :
              /\ ~(NextUpper(i) /\ NextTable(i))
              /\ FormParagraph(i) # "form" => ClaimedScore(i) < 50

\* a paragraph without the marker that has four context signals has been
\* scored and no record was opened for it
C26_Witness ==
    /\ det.pc = "done"
    /\ \E i \in 0..(Len(det.paragraphs) - 1) :
          /\ FormParagraph(i) # "form"
          /\ Cardinality(ContextSignals(i)) = 4
          /\ \A k \in 1..Len(det.forms) : det.forms[k].start # i

\* extract_text yields no text for the file being converted
NoTextExtracted ==
    \/ conv.file_type \notin {"txt", "docx", "pdf", "html"}
    \/ conv.text = <<>>

\* the step process_raw_file takes from its start
C25_NoTextStep ==
    (conv.pc = "start" /\ NoTextExtracted) =>
        (conv'.pc = "done" /\ out_file' = out_file)

\* C25: when no text is extracted, process_raw_file returns without
\* raising and the output file is neither created nor changed
C25_NoTextNoOutput == [][C25_NoTextStep]_vars

\* process_raw_file has returned for a file of an unsupported type, and
\* the output of an earlier run is still at the output path
C25_Witness ==
    /\ conv.pc = "done"
    /\ conv.text = <<>>
    /\ out_file.exists
    /\ out_file.documents[1].doc_id = <<"OLD">>

\* the forest new differs from the forest old in nothing but the content
\* of nodes that have subsections, and no content of new is longer
RECURSIVE OnlyParentContentDiffers(_, _)
OnlyParentContentDiffers(old, new) ==
    /\ Len(new) = Len(old)
    /\ \A k \in 1..Len(old) :
          /\ new[k].has_id = old[k].has_id
          /\ new[k].id = old[k].id
          /\ new[k].header = old[k].header
          /\ new[k].title = old[k].title
          /\ old[k].subsections = <<>> => new[k].content = old[k].content
          /\ Len(new[k].content) <= Len(old[k].content)
          /\ OnlyParentContentDiffers(old[k].subsections, new[k].subsections)

\* C27: a call of clean_redundant_content leaves the shape of the forest,
\* the order of subsections, every id, header and title and the content of
\* every leaf as they were, and makes no content longer
C27_OnlyParentContentChanges ==
    passes >= 1 => OnlyParentContentDiffers(before, sections)

\* a call has shortened the content of the top section, whose first
\* subsection is a leaf with white space at the start of its content
C27_Witness ==
    /\ passes = 1
    /\ Len(sections[1].content) < Len(before[1].content)
    /\ sections[1].subsections[1].subsections = <<>>
    /\ Len(sections[1].subsections[1].content) = 2
    /\ sections[1].subsections[1].content[1] = " "

\* the files of the directories from d on, in the order of the walk
RECURSIVE WalkOrder(_, _)
WalkOrder(tree, d) ==
    IF d > Len(tree) THEN <<>>
    ELSE [k \in 1..Len(tree[d]) |-> <<d, k>>] \o WalkOrder(tree, d + 1)

IsPrefix(s, t) == Len(s) <= Len(t) /\ \A k \in 1..Len(s) : s[k] = t[k]

FolderRunning == batch.pc # "idle"

\* C24: process_folder attempts every file once and in walk order, whatever
\* the conversions before it ran into, and no exception of a conversion
\* leaves process_folder
C24_EveryFileAttempted ==
    FolderRunning =>
        /\ batch.pc \in {"walk", "files", "done"}
        /\ IsPrefix(batch.attempted, WalkOrder(batch.tree, 1))
        /\ batch.pc = "done" => batch.attempted = WalkOrder(batch.tree, 1)

\* process_folder has returned; the first file raised outside of
\* process_raw_file, the second inside, and a file after them was written
C24_Witness ==
    /\ batch.pc = "done"
    /\ Len(batch.attempted) = 3
    /\ batch.tree[1] = <<"raised_outside", "raised_inside">>
    /\ batch.errors = <<<<1, 1>>, <<1, 2>>>>
    /\ batch.written = {<<2, 1>>}

TaskOf(message) == {k \in DOMAIN tasks : tasks[k].message = message}

\* a message leaves the queue only in the delete step of its own task, after
\* the RAG call and put_item of that task have returned
DeletedOnlyAfterSuccess ==
    \A m \in queue \ queue' :
        \E k \in TaskOf(m) :
            /\ tasks[k].pc = "delete_message"
            /\ tasks[k].rag_returned /\ tasks[k].put_returned
            /\ tasks'[k].outcome = "deleted"

\* a step that ends a task with a swallowed exception leaves its message in
\* the queue and the other tasks of the batch as they were
RaiseLeavesMessage ==
    \A k \in DOMAIN tasks :
        (/\ DOMAIN tasks' = DOMAIN tasks
         /\ tasks[k].pc # "done"
         /\ tasks'[k].outcome = "swallowed")
        => /\ tasks[k].message \in queue'
           /\ \A j \in DOMAIN tasks \ {k} : tasks'[j] = tasks[j]

WorkerRunning == poller.pc # "idle"

\* no exception leaves poll_queue or gather: every unfinished task of the
\* batch can take its next step, a finished batch is followed by the sleep
\* and the sleep by the next poll
PollingProceeds ==
    WorkerRunning =>
        /\ poller.pc \in {"receive", "gather", "sleep"}
        /\ poller.pc = "gather" =>
             \/ \E k \in DOMAIN tasks : tasks[k].pc # "done"
             \/ ENABLED GatherReturns
        /\ (poller.pc = "gather" /\ \E k \in DOMAIN tasks : tasks[k].pc # "done")
             => ENABLED ProcessMessage
        /\ (poller.pc = "sleep" /\ poller.polls < MaxPolls) => ENABLED Sleep

\* C28: process_message deletes a message only after the RAG call and
\* put_item have returned; an exception in any step is swallowed, leaves the
\* message in the queue and stops neither the other tasks of the batch nor
\* the polls after it
C28_DeleteOnlyAfterSuccess ==
    /\ []PollingProceeds
    /\ [][DeletedOnlyAfterSuccess /\ RaiseLeavesMessage]_vars

\* in the second poll the first task of a batch of two has ended with a
\* swallowed exception, its message is still queued and the second task
\* is waiting for get_item
C28_Witness ==
    /\ poller.pc = "gather"
    /\ poller.polls = 2
    /\ Len(tasks) = 2
    /\ tasks[1].outcome = "swallowed"
    /\ tasks[1].message \in queue
    /\ tasks[2].pc = "get_item"

\* the complete records stored for a query text
CompleteRecordsOf(query_text) ==
    {r \in db : r.is_complete /\ r.query_text = query_text}

\* the lookup of a request has been answered without an error of the table
LookupAnswered ==
    /\ api.pc = "lookup"
    /\ api'.pc # "lookup"
    /\ ~api'.lookup_failed

\* when a complete record exists for the text of a submitted query,
\* the key the endpoint looks up is the key stored with the record, and the
\* endpoint answers with the query_id of such a record, without a new
\* record and without a call of the processor
C30_Step ==
    (LookupAnswered /\ CompleteRecordsOf(api.query_text) # {})
    => /\ \A r \in CompleteRecordsOf(api.query_text) : r.cache_key = api.cache_key
       /\ api'.pc = "responded"
       /\ \E r \in CompleteRecordsOf(api.query_text) : api'.response_id = r.query_id
       /\ db' = db
       /\ ~api'.processed

\* C30: every step of submit_query_endpoint that answers the cache lookup
\* of a text with a complete record is a cache hit on that record
C30_ResubmissionHitsCache == [][C30_Step]_vars

\* put_item has returned for an item with the fields of its answer set
\* whose query_id had a record when put_item was called
AnswerPutOverRecord ==
    /\ put.pc = "returned"
    /\ put.item.is_complete
    /\ put.existed

====
